---- MODULE Spec2Model ----
(***************************************************************************)
(* Model of the ESP32 DHT22 sensor firmware (esp32_dht22_prometheus.ino,   *)
(* the variant of lines 2085-2965): the cooperative loop(), the HTTP       *)
(* handlers that reach the update code, the GitHub update check            *)
(* (checkForGitHubUpdate / getLatestGitHubRelease), the chunked download   *)
(* into the flash sink (downloadAndInstallUpdate) and the ring-buffer log  *)
(* (logMessage).                                                           *)
(*                                                                         *)
(* One thread of control runs setup() and then loop() forever; pc is its   *)
(* position.  The environment (clock, WiFi link, HTTP clients, release     *)
(* server, sensor, flash writer) is nondeterministic.  Times are in        *)
(* milliseconds as in the source; the clock advances in steps of TickMs.   *)
(* Byte counts and the log capacity are scaled down.                       *)
(***************************************************************************)
EXTENDS Integers, Sequences, FiniteSets, TLC

VARIABLES
  pc,               \* position of the single thread: "boot", "serve", "auto",
                    \* "sensor", "download", "installed"
  caller,           \* who called checkForGitHubUpdate: "none", "loop", "http"
  now,              \* millis()
  wifi,             \* WiFi.status() == WL_CONNECTED
  pending,          \* HTTP requests accepted by the TCP stack, not yet handled
  config,           \* struct DeviceConfig config (the fields modelled)
  configFile,       \* /config.json on SPIFFS
  currentVersion,   \* String currentVersion
  lastUpdateCheck,  \* unsigned long lastUpdateCheck
  updateInProgress, \* bool updateInProgress
  lastSensorRead,   \* unsigned long lastSensorRead
  lastTemperature,  \* float lastTemperature
  lastHumidity,     \* float lastHumidity
  lastLogTime,      \* static unsigned long lastLogTime in readDHT22
  logBuffer,        \* LogEntry logBuffer[MAX_LOG_ENTRIES]
  logIndex,         \* int logIndex
  logCount,         \* int logCount
  dl,               \* locals of the running downloadAndInstallUpdate
  sinkOpen,         \* the Update object has a write session begun and not ended
  active,           \* number of live activations of downloadAndInstallUpdate
  run               \* history of the update run in progress or just ended,
                    \* until the thread's next step in loop()

vars == <<pc, caller, now, wifi, pending, config, configFile, currentVersion,
          lastUpdateCheck, updateInProgress, lastSensorRead, lastTemperature,
          lastHumidity, lastLogTime, logBuffer, logIndex, logCount, dl,
          sinkOpen, active, run>>

----------------------------------------------------------------------------
(* Bounds of the model *)

\* the clock runs from 0 to MaxTime in steps of TickMs
MaxTime == 300001
TickMs == 300001
\* requests the TCP stack holds while the thread is busy
MaxPending == 1
\* declared content length of a firmware image, in (scaled) bytes
MaxContentLength == 2
\* capacity of the log ring; 50 in the source (line 2142), scaled down
MAX_LOG_ENTRIES == 2
\* sizeof(buffer), 1024 in the source (line 2829), scaled down
BUFFER_SIZE == 2

(* Program constants *)
\* width in bits of int (int logIndex, int logCount): 32 in the build, scaled
\* down; int arithmetic is two's complement of this width
IntBits == 2
SENSOR_READ_INTERVAL == 30000
DOWNLOAD_TIMEOUT == 300000
SENSOR_LOG_INTERVAL == 300000
HTTP_CODE_OK == 200
MS_PER_HOUR == 3600000
\* width in bits of unsigned long, the type of millis() and of the time
\* stamps: 32 in the build, scaled down so that the sums stay within the
\* integers of the model checker
ClockBits == 30
ClockPeriod == 2 ^ ClockBits

\* float NAN
NaN == -1000

BootVersion == "v1.0.0"
\* the tag_name member of the release document; NoTag: the document has none
NoTag == "<absent>"
Tags == {NoTag, "", "v1.0.0", "v1.1.0"}
ContentLengths == {-1, 0, MaxContentLength}
FreeSpaces == {MaxContentLength - 1, MaxContentLength}

\* answers of the release-metadata endpoint: status, whether the body parses,
\* the tag_name in it
ReleaseReplies ==
  {[code |-> 404, parseOk |-> FALSE, tag |-> ""],
   [code |-> 200, parseOk |-> FALSE, tag |-> ""]}
  \cup {[code |-> 200, parseOk |-> TRUE, tag |-> t] : t \in Tags}

\* answers of the image endpoint and of the flash writer: status, declared
\* content length, free sketch space, result of Update.begin, bytes the
\* source goes on to deliver
ImageReplies ==
  {[code |-> 404, len |-> 0, free |-> MaxContentLength, canBegin |-> FALSE, src |-> 0]}
  \cup {[code |-> 200, len |-> l, free |-> MaxContentLength, canBegin |-> FALSE, src |-> 0] :
          l \in ContentLengths}
  \cup {[code |-> 200, len |-> MaxContentLength, free |-> f, canBegin |-> FALSE, src |-> 0] :
          f \in FreeSpaces}
  \cup {[code |-> 200, len |-> MaxContentLength, free |-> MaxContentLength,
          canBegin |-> TRUE, src |-> n] : n \in 0..(MaxContentLength + 1)}
\* version strings, each with its place in semantic-version order ("null"
\* is no version and comes first)
VersionRank ==
  [v \in {"null", "v0.9.0", "v1.0.0", "v1.0.1", "v1.1.0", "v1.10.0", "v2.0.0"} |->
     CASE v = "null" -> 0
       [] v = "v0.9.0" -> 1
       [] v = "v1.0.0" -> 2
       [] v = "v1.0.1" -> 3
       [] v = "v1.1.0" -> 4
       [] v = "v1.10.0" -> 5
       [] v = "v2.0.0" -> 6]
VersionStrings == DOMAIN VersionRank
Readings == {NaN, 21}
\* values of the wifi_ssid form argument; NoSsid: the argument is absent
NoSsid == "-"
SsidArgs == {NoSsid}
\* values of the update_interval form argument; NoArg: the argument is absent
NoArg == -1
IntervalArgs == {0, NoArg}
\* outcomes of SPIFFS.open("/config.json", "w")
SaveOpens == BOOLEAN
\* requests of the clients of this specification; "page", "reboot" and
\* "config" have handlers below that Next does not take
RequestKinds == {"check"}

Min(a, b) == IF a < b THEN a ELSE b

\* millis() - last in unsigned long.  t and last are times since power-on;
\* millis() and the stamps of the program are their residues modulo
\* ClockPeriod, and so is the difference the program computes
Elapsed(t, last) == (t - last) % ClockPeriod

----------------------------------------------------------------------------
(* The log *)

Entry(level, category, message) ==
  [level |-> level, category |-> category, message |-> message]

EmptySlot == [timestamp |-> 0, level |-> "", category |-> "", message |-> ""]

\* int arithmetic of width IntBits, two's complement
WrapInt(x) ==
  LET m == 2 ^ IntBits
      r == x % m
  IN  IF r >= m \div 2 THEN r - m ELSE r

\* logMessage applied to the log state L = [buf, idx, cnt] at time t
LogOne(L, e, t) ==
  [buf |-> [L.buf EXCEPT ![L.idx] =
              [timestamp |-> t, level |-> e.level,
               category |-> e.category, message |-> e.message]],
   idx |-> (L.idx + 1) % MAX_LOG_ENTRIES,
   cnt |-> WrapInt(L.cnt + 1)]

RECURSIVE LogSeq(_, _, _)
LogSeq(L, es, t) ==
  IF es = <<>> THEN L ELSE LogSeq(LogOne(L, Head(es), t), Tail(es), t)

CurLog == [buf |-> logBuffer, idx |-> logIndex, cnt |-> logCount]

\* the calls logMessage(e) for e in es, in order, at the current time
logMessage(es) ==
  LET L == LogSeq(CurLog, es, now)
  IN  /\ logBuffer' = L.buf
      /\ logIndex' = L.idx
      /\ logCount' = L.cnt

----------------------------------------------------------------------------
(* Configuration store *)

DefaultConfig == [autoUpdate |-> FALSE, updateInterval |-> 24, wifiSsid |-> ""]

\* /config.json: whether it exists, whether its text is a JSON document
\* (parsable), and the members of that document
NoFile == [exists |-> FALSE, parsable |-> TRUE, autoUpdate |-> FALSE,
           updateInterval |-> 24, wifiSsid |-> ""]

FileOf(c) == [exists |-> TRUE, parsable |-> TRUE, autoUpdate |-> c.autoUpdate,
              updateInterval |-> c.updateInterval, wifiSsid |-> c.wifiSsid]

\* a file whose text is not a JSON document (cut short, or overwritten)
CorruptFile == [exists |-> TRUE, parsable |-> FALSE, autoUpdate |-> FALSE,
                updateInterval |-> 24, wifiSsid |-> ""]

\* what the device may find persisted when it first boots
InitialFiles ==
  {NoFile} \cup {FileOf([autoUpdate |-> TRUE, updateInterval |-> 0,
                         wifiSsid |-> "home"])}

\* loadConfig: c is the in-memory config before the call, f the file,
\* openOk whether SPIFFS.open succeeds.  The result of deserializeJson is not
\* looked at: from a file that does not parse the document is empty and every
\* field takes the default of its `|`
loadConfig(c, f, openOk) ==
  LET loaded == f.exists /\ openOk
      c1 == IF loaded
              THEN IF f.parsable
                     THEN [autoUpdate |-> f.autoUpdate,
                           updateInterval |-> f.updateInterval,
                           wifiSsid |-> f.wifiSsid]
                     ELSE DefaultConfig
              ELSE c
      m1 == IF f.exists
              THEN IF openOk
                     THEN <<Entry("INFO", "CONFIG", "Configuration loaded from file")>>
                     ELSE <<>>
              ELSE <<Entry("INFO", "CONFIG", "Using default configuration")>>
      fallback == c1.wifiSsid = ""
      c2 == IF fallback THEN [c1 EXCEPT !.wifiSsid = "ssid"] ELSE c1
      m2 == IF fallback
              THEN <<Entry("INFO", "CONFIG", "Using default WiFi credentials")>>
              ELSE <<>>
  IN  [config |-> c2, msgs |-> m1 \o m2]

\* saveConfig: the file after the call and the entry logged
saveConfig(c, f, openOk) ==
  IF openOk
    THEN [file |-> FileOf(c),
          msgs |-> <<Entry("INFO", "CONFIG", "Configuration saved to file")>>]
    ELSE [file |-> f,
          msgs |-> <<Entry("ERROR", "CONFIG", "Failed to save configuration")>>]

----------------------------------------------------------------------------
(* History of an update run *)

\* trigger: "none", "loop" or "http"; startVersion: currentVersion when the
\* run began; resolverOk, target: whether the release server answered 200
\* with a parsable body, the tag_name member of the body (tag) and the
\* version string the resolver made of it (target); events: what the run did
\* ("meta", "image": HTTP requests; "begin", "end": Update.begin, Update.end;
\* "restart": ESP.restart); writes: calls of Update.write; log: the entries
\* the run recorded; result: "running", "nowifi", "noupdate", "failed",
\* "installed"; fault: what the environment presented to the transfer;
\* queuedWhileBusy: the request that started the run arrived while
\* updateInProgress was set
NoRun == [trigger |-> "none", startVersion |-> "", resolverOk |-> FALSE,
          tag |-> NoTag, target |-> "", events |-> {}, writes |-> 0, log |-> <<>>,
          result |-> "none", fault |-> "none", queuedWhileBusy |-> FALSE]

\* the locals of downloadAndInstallUpdate, with what the source has yet to
\* deliver (srcLeft) and the bytes the Update object has taken (accepted)
NoDl == [version |-> "", contentLength |-> 0, written |-> 0,
         lastProgress |-> 0, startTime |-> 0, srcLeft |-> 0, accepted |-> 0]

sensorVars == <<lastSensorRead, lastTemperature, lastHumidity, lastLogTime>>
cfgVars == <<config, configFile>>
logVars == <<logBuffer, logIndex, logCount>>

----------------------------------------------------------------------------
(* Initial state: power-on, before setup() *)

Init ==
  /\ pc = "boot"
  /\ caller = "none"
  /\ now = 0
  /\ wifi \in BOOLEAN
  /\ pending = <<>>
  /\ config = DefaultConfig
  /\ configFile \in InitialFiles
  /\ currentVersion = BootVersion
  /\ lastUpdateCheck = 0
  /\ updateInProgress = FALSE
  /\ lastSensorRead = 0
  /\ lastTemperature = NaN
  /\ lastHumidity = NaN
  /\ lastLogTime = 0
  /\ logBuffer = [i \in 0..(MAX_LOG_ENTRIES - 1) |-> EmptySlot]
  /\ logIndex = 0
  /\ logCount = 0
  /\ dl = NoDl
  /\ sinkOpen = FALSE
  /\ active = 0
  /\ run = NoRun

----------------------------------------------------------------------------
(* setup(), run at power-on and after every ESP.restart() *)

connectWiFi(connected) ==
  <<Entry("INFO", "NETWORK", "Connecting to WiFi...")>>
  \o (IF connected
        THEN <<Entry("INFO", "NETWORK", "WiFi connected")>>
        ELSE <<Entry("ERROR", "NETWORK", "WiFi connection failed")>>)

Boot ==
  /\ pc = "boot"
  /\ \E openOk \in BOOLEAN, connected \in BOOLEAN :
       LET ld == loadConfig(DefaultConfig, configFile, openOk)
           L0 == [buf |-> [i \in 0..(MAX_LOG_ENTRIES - 1) |-> EmptySlot],
                  idx |-> 0, cnt |-> 0]
           L == LogSeq(L0,
                       ld.msgs \o connectWiFi(connected)
                       \o <<Entry("INFO", "SYSTEM", "HTTP server started on port 80"),
                            Entry("INFO", "OTA", "OTA updater initialized"),
                            Entry("INFO", "SYSTEM", "ESP32 DHT22 sensor server started")>>,
                       0)
       IN  /\ config' = ld.config
           /\ wifi' = connected
           /\ logBuffer' = L.buf
           /\ logIndex' = L.idx
           /\ logCount' = L.cnt
  /\ now' = 0
  /\ currentVersion' = BootVersion
  /\ lastUpdateCheck' = 0
  /\ updateInProgress' = FALSE
  /\ lastSensorRead' = 0
  /\ lastTemperature' = NaN
  /\ lastHumidity' = NaN
  /\ lastLogTime' = 0
  /\ pending' = <<>>
  /\ dl' = NoDl
  /\ sinkOpen' = FALSE
  /\ active' = 0
  /\ caller' = "none"
  /\ pc' = "serve"
  /\ run' = NoRun
  /\ UNCHANGED configFile

----------------------------------------------------------------------------
(* Environment *)

\* millis() advances
Tick ==
  /\ pc # "boot"
  /\ now + TickMs <= MaxTime
  /\ now' = now + TickMs
  /\ UNCHANGED <<pc, caller, wifi, pending, config, configFile, currentVersion,
                 lastUpdateCheck, updateInProgress, sensorVars, logVars, dl,
                 sinkOpen, active, run>>

\* the WiFi link drops or comes back
WifiChange ==
  /\ pc # "boot"
  /\ wifi' = ~wifi
  /\ UNCHANGED <<pc, caller, now, pending, config, configFile, currentVersion,
                 lastUpdateCheck, updateInProgress, sensorVars, logVars, dl,
                 sinkOpen, active, run>>

\* an HTTP client connects and sends a request; the TCP stack holds it until
\* server.handleClient() picks it up.  A request that arrives during the rest
\* of a loop iteration is taken as arriving when handleClient is next reached
ClientRequest ==
  /\ pc \in {"serve", "download", "installed"}
  /\ Len(pending) < MaxPending
  /\ \E k \in RequestKinds :
       pending' = Append(pending, [kind |-> k, busy |-> updateInProgress])
  /\ UNCHANGED <<pc, caller, now, wifi, config, configFile, currentVersion,
                 lastUpdateCheck, updateInProgress, sensorVars, logVars, dl,
                 sinkOpen, active, run>>

----------------------------------------------------------------------------
(* GitHub update check *)

\* doc["tag_name"].as<String>(): a string member as it is; a missing member is
\* a null variant, which ArduinoJson converts to its JSON text
AsString(tag) == IF tag = NoTag THEN "null" ELSE tag

\* variant: the check does not look at the link
WiFiAssumed(w) == TRUE

\* WiFi.status() == WL_CONNECTED when the check starts
WiFiConnected(w) == w

\* variant: a failed request is not logged
getLatestQuietly(code, parseOk, tag) ==
  [version |-> IF code = HTTP_CODE_OK /\ parseOk THEN AsString(tag) ELSE "",
   msgs |-> IF code = HTTP_CODE_OK /\ parseOk
              THEN <<Entry("INFO", "OTA", "Latest release")>>
              ELSE <<>>]

\* getLatestGitHubRelease: code is the status of the release-metadata GET,
\* parseOk whether deserializeJson succeeds, tag the value of tag_name
getLatestGitHubRelease(code, parseOk, tag) ==
  IF code = HTTP_CODE_OK
    THEN IF parseOk
           THEN [version |-> AsString(tag),
                 msgs |-> <<Entry("INFO", "OTA", "Latest release")>>]
           ELSE [version |-> "",
                 msgs |-> <<Entry("ERROR", "OTA", "Failed to parse GitHub API response")>>]
    ELSE [version |-> "",
          msgs |-> <<Entry("ERROR", "OTA", "GitHub API request failed")>>]

\* variant: the comparison with currentVersion is missing
ShouldUpdateAlways(latest, current) == latest # ""

\* variant: only a tag that is newer in semantic-version order is taken
ShouldUpdateNewer(latest, current) ==
  latest # "" /\ VersionRank[latest] > VersionRank[current]

\* variant: the test for an empty version string is missing
ShouldUpdateAnyTag(latest, current) == latest # current

\* latestVersion.length() > 0 && latestVersion != currentVersion
ShouldUpdate(latest, current) == latest # "" /\ latest # current

\* variant: a declared length of zero passes
LengthNotNegative(len) == len >= 0

\* contentLength > 0
LengthOk(len) == len > 0

\* variant: no free-space check before Update.begin
SpaceUnchecked(len, free) == TRUE

\* !(contentLength > freeSpace)
SpaceOk(len, free) == ~(len > free)

\* downloadAndInstallUpdate up to the chunk loop: code is the status of the
\* image GET, len is http.getSize(), free is ESP.getFreeSketchSpace(),
\* canBegin the result of Update.begin.  enter: the chunk loop is entered;
\* begun: Update.begin was called
Prologue(code, len, free, canBegin) ==
  LET m0 == <<Entry("INFO", "OTA", "Downloading firmware from")>>
      m1 == m0 \o <<Entry("INFO", "OTA", "Firmware size"),
                    Entry("INFO", "OTA", "Available space")>>
  IN  IF code # HTTP_CODE_OK
        THEN [enter |-> FALSE, begun |-> FALSE,
              msgs |-> m0 \o <<Entry("ERROR", "OTA", "Firmware download failed")>>]
      ELSE IF ~LengthOk(len)
        THEN [enter |-> FALSE, begun |-> FALSE,
              msgs |-> m0 \o <<Entry("ERROR", "OTA", "Invalid content length")>>]
      ELSE IF ~SpaceOk(len, free)
        THEN [enter |-> FALSE, begun |-> FALSE,
              msgs |-> m1 \o <<Entry("ERROR", "OTA", "Not enough space: need")>>]
      ELSE IF ~canBegin
        THEN [enter |-> FALSE, begun |-> TRUE,
              msgs |-> m1 \o <<Entry("ERROR", "OTA", "Not enough space to begin OTA")>>]
      ELSE [enter |-> TRUE, begun |-> TRUE,
            msgs |-> m1 \o <<Entry("INFO", "OTA", "Starting firmware update")>>]

\* what the environment presented to the transfer before the chunk loop
PrologueFault(code, len, free, canBegin) ==
  IF code # 200 THEN "http"
  ELSE IF len <= 0 THEN "length"
  ELSE IF free < len THEN "space"
  ELSE IF ~canBegin THEN "begin"
  ELSE "none"

\* variant: the device restarts whenever a check returns
RestartOnReturn(c) ==
  /\ pc' = "boot"
  /\ lastUpdateCheck' = lastUpdateCheck
  /\ caller' = "none"

\* control returns from checkForGitHubUpdate to its caller c: loop() records
\* the time of the check and goes on to the sensor; handleUpdateRequest sends
\* the 302 and handleClient returns to loop()
ReturnToCaller(c) ==
  /\ pc' = IF c = "loop" THEN "sensor" ELSE "auto"
  /\ lastUpdateCheck' = IF c = "loop" THEN now ELSE lastUpdateCheck
  /\ caller' = "none"

\* checkForGitHubUpdate called by c, after the caller logged pre; up to its
\* return or to the head of the chunk loop.  replies: the answers the
\* release-metadata endpoint may give; images: those of the image endpoint
\* and the flash writer
CheckOf(replies, images, c, pre, queued) ==
  LET r0 == [NoRun EXCEPT !.trigger = c, !.startVersion = currentVersion,
                          !.queuedWhileBusy = queued, !.result = "running"]
  IN
  \/ /\ ~WiFiConnected(wifi)
     /\ LET msgs == pre \o <<Entry("ERROR", "OTA", "WiFi not connected, skipping update check")>>
        IN  /\ logMessage(msgs)
            /\ run' = [r0 EXCEPT !.log = msgs, !.result = "nowifi"]
     /\ ReturnToCaller(c)
     /\ UNCHANGED <<updateInProgress, dl, sinkOpen, active>>
  \/ /\ WiFiConnected(wifi)
     /\ \E rr \in replies :
          LET rel == getLatestGitHubRelease(rr.code, rr.parseOk, rr.tag)
              ok == rr.code = 200 /\ rr.parseOk
              r1 == [r0 EXCEPT !.events = {"meta"}, !.resolverOk = ok,
                               !.target = IF ok THEN rel.version ELSE "",
                               !.tag = rr.tag]
              m1 == pre \o <<Entry("INFO", "OTA", "Checking for GitHub updates...")>>
                    \o rel.msgs
          IN
          IF ~ShouldUpdate(rel.version, currentVersion)
            THEN /\ LET msgs == m1 \o <<Entry("INFO", "OTA", "No updates available")>>
                    IN  /\ logMessage(msgs)
                        /\ run' = [r1 EXCEPT !.log = msgs, !.result = "noupdate"]
                 /\ ReturnToCaller(c)
                 /\ UNCHANGED <<updateInProgress, dl, sinkOpen, active>>
            ELSE \E ir \in images :
                 \* Update.begin refuses while a write session is open
                 /\ ir.canBegin => ~sinkOpen
                 /\ LET p == Prologue(ir.code, ir.len, ir.free, ir.canBegin)
                        m2 == m1 \o <<Entry("INFO", "OTA", "New version available")>>
                              \o p.msgs
                        r2 == [r1 EXCEPT
                                 !.events = {"meta", "image"}
                                            \cup (IF p.begun THEN {"begin"} ELSE {}),
                                 !.fault = PrologueFault(ir.code, ir.len, ir.free, ir.canBegin)]
                    IN
                    IF p.enter
                      THEN /\ logMessage(m2)
                           /\ run' = [r2 EXCEPT !.log = m2]
                           /\ updateInProgress' = TRUE
                           /\ dl' = [version |-> rel.version,
                                     contentLength |-> ir.len,
                                     written |-> 0, lastProgress |-> 0,
                                     startTime |-> now, srcLeft |-> ir.src,
                                     accepted |-> 0]
                           /\ sinkOpen' = TRUE
                           /\ active' = active + 1
                           /\ pc' = "download"
                           /\ caller' = c
                           /\ UNCHANGED lastUpdateCheck
                      ELSE /\ LET msgs == m2 \o <<Entry("ERROR", "OTA", "Update failed")>>
                              IN  /\ logMessage(msgs)
                                  /\ run' = [r2 EXCEPT !.log = msgs, !.result = "failed"]
                           /\ updateInProgress' = FALSE
                           /\ ReturnToCaller(c)
                           /\ UNCHANGED <<dl, sinkOpen, active>>

CheckWith(replies, c, pre, queued) ==
  CheckOf(replies, ImageReplies, c, pre, queued)

checkForGitHubUpdate(c, pre, queued) == CheckWith(ReleaseReplies, c, pre, queued)

----------------------------------------------------------------------------
(* loop(): server.handleClient() *)

\* no request is waiting
ServeNone ==
  /\ pc = "serve"
  /\ pending = <<>>
  /\ pc' = "auto"
  /\ UNCHANGED <<caller, now, wifi, pending, cfgVars, currentVersion,
                 lastUpdateCheck, updateInProgress, sensorVars, logVars, dl,
                 sinkOpen, active, run>>

\* handleUpdateRequest, GET /update?action=check
HandleUpdateCheck ==
  /\ pc = "serve"
  /\ pending # <<>>
  /\ Head(pending).kind = "check"
  /\ pending' = Tail(pending)
  /\ checkForGitHubUpdate("http",
                          <<Entry("INFO", "OTA", "Manual update check requested")>>,
                          Head(pending).busy)
  /\ UNCHANGED <<now, wifi, cfgVars, currentVersion, sensorVars>>

\* handleUpdateRequest without action=check: the update page
HandleUpdatePage ==
  /\ pc = "serve"
  /\ pending # <<>>
  /\ Head(pending).kind = "page"
  /\ pending' = Tail(pending)
  /\ pc' = "auto"
  /\ UNCHANGED <<caller, now, wifi, cfgVars, currentVersion,
                 lastUpdateCheck, updateInProgress, sensorVars, logVars, dl,
                 sinkOpen, active, run>>

\* handleRebootRequest, GET /reboot
HandleReboot ==
  /\ pc = "serve"
  /\ pending # <<>>
  /\ Head(pending).kind = "reboot"
  /\ logMessage(<<Entry("INFO", "SYSTEM", "Manual reboot requested")>>)
  /\ pending' = <<>>
  /\ pc' = "boot"
  /\ run' = NoRun
  /\ UNCHANGED <<caller, now, wifi, cfgVars, currentVersion,
                 lastUpdateCheck, updateInProgress, sensorVars, dl,
                 sinkOpen, active>>

\* variant: a field whose argument is absent takes its default
handleConfigUpdateFromDefaults(c, hasAuto, interval, ssid) ==
  [autoUpdate |-> hasAuto,
   updateInterval |-> IF interval = NoArg THEN DefaultConfig.updateInterval ELSE interval,
   wifiSsid |-> IF ssid = NoSsid THEN DefaultConfig.wifiSsid ELSE ssid]

\* handleConfigUpdate, POST /config: hasAuto is hasArg("auto_update"),
\* interval the value of update_interval and ssid the value of wifi_ssid
\* (NoArg when the argument is absent)
handleConfigUpdate(c, hasAuto, interval, ssid) ==
  [autoUpdate |-> hasAuto,
   updateInterval |-> IF interval = NoArg THEN c.updateInterval ELSE interval,
   wifiSsid |-> IF ssid = NoSsid THEN c.wifiSsid ELSE ssid]

\* the handler, for hasArg("auto_update") drawn from autos, update_interval
\* from intervals and wifi_ssid from ssids
ConfigUpdateOf(autos, intervals, ssids) ==
  /\ pc = "serve"
  /\ pending # <<>>
  /\ Head(pending).kind = "config"
  /\ pending' = Tail(pending)
  /\ \E hasAuto \in autos, interval \in intervals,
        ssid \in ssids, openOk \in SaveOpens :
       LET c == handleConfigUpdate(config, hasAuto, interval, ssid)
           sv == saveConfig(c, configFile, openOk)
       IN  /\ config' = c
           /\ configFile' = sv.file
           /\ logMessage(sv.msgs \o
                <<Entry("INFO", "CONFIG", "Configuration updated via web interface")>>)
  /\ pc' = "auto"
  /\ UNCHANGED <<caller, now, wifi, currentVersion, lastUpdateCheck,
                 updateInProgress, sensorVars, dl, sinkOpen, active,
                 run>>

\* the handler, for requests with and without auto_update
ConfigUpdateWith(intervals, ssids) == ConfigUpdateOf(BOOLEAN, intervals, ssids)

HandleConfigUpdate == ConfigUpdateWith(IntervalArgs, SsidArgs)

----------------------------------------------------------------------------
(* loop(): the automatic update check *)

\* variant: the interval is taken as minutes
updateIntervalMinutes(c) == c.updateInterval * 60000

\* unsigned long updateIntervalMs = config.updateInterval * 3600000
updateIntervalMs(c) == c.updateInterval * MS_PER_HOUR

\* config.autoUpdate && !updateInProgress
\*   && millis() - lastUpdateCheck >= updateIntervalMs
AutoCheckDue ==
  /\ config.autoUpdate
  /\ ~updateInProgress
  /\ Elapsed(now, lastUpdateCheck) >= updateIntervalMs(config)

AutoCheck ==
  /\ pc = "auto"
  /\ AutoCheckDue
  /\ checkForGitHubUpdate("loop", <<>>, FALSE)
  /\ UNCHANGED <<now, wifi, pending, cfgVars, currentVersion, sensorVars>>

AutoSkip ==
  /\ pc = "auto"
  /\ ~AutoCheckDue
  /\ pc' = "sensor"
  /\ run' = NoRun
  /\ UNCHANGED <<caller, now, wifi, pending, cfgVars, currentVersion,
                 lastUpdateCheck, updateInProgress, sensorVars, logVars, dl,
                 sinkOpen, active>>

----------------------------------------------------------------------------
(* loop(): the periodic sensor read *)

SensorDue == Elapsed(now, lastSensorRead) >= SENSOR_READ_INTERVAL

\* variant: a failed read leaves the cached value as it was
KeptOnFailure(prev) == prev

\* lastTemperature = NAN; lastHumidity = NAN: what a failed read stores in
\* place of the cached value prev
Invalidated(prev) == NaN

\* variant: only the humidity is tested
HumidityInvalid(h, t) == h = NaN

\* isnan(humidity) || isnan(temperature)
ReadingInvalid(h, t) == h = NaN \/ t = NaN

\* readDHT22 with the readings h and t of the driver, drawn from readings
SensorReadOf(readings) ==
  /\ pc = "sensor"
  /\ SensorDue
  /\ \E h \in readings, t \in readings :
       IF ReadingInvalid(h, t)
         THEN /\ logMessage(<<Entry("ERROR", "SENSOR", "Failed to read from DHT sensor")>>)
              /\ lastTemperature' = Invalidated(lastTemperature)
              /\ lastHumidity' = Invalidated(lastHumidity)
              /\ UNCHANGED lastLogTime
         ELSE /\ lastTemperature' = t
              /\ lastHumidity' = h
              /\ IF Elapsed(now, lastLogTime) > SENSOR_LOG_INTERVAL
                   THEN /\ logMessage(<<Entry("DEBUG", "SENSOR", "Sensor read")>>)
                        /\ lastLogTime' = now
                   ELSE UNCHANGED <<logVars, lastLogTime>>
  /\ lastSensorRead' = now
  /\ pc' = "serve"
  /\ run' = NoRun
  /\ UNCHANGED <<caller, now, wifi, pending, cfgVars, currentVersion,
                 lastUpdateCheck, updateInProgress, dl, sinkOpen, active>>

SensorRead == SensorReadOf(Readings)

SensorSkip ==
  /\ pc = "sensor"
  /\ ~SensorDue
  /\ pc' = "serve"
  /\ run' = NoRun
  /\ UNCHANGED <<caller, now, wifi, pending, cfgVars, currentVersion,
                 lastUpdateCheck, updateInProgress, sensorVars, logVars, dl,
                 sinkOpen, active>>

----------------------------------------------------------------------------
(* downloadAndInstallUpdate: the chunk loop and the commit *)

\* variant: the deadline is twice as long
TimedOutLate(t, start) == Elapsed(t, start) > 2 * DOWNLOAD_TIMEOUT

\* variant: the loop has no deadline check
TimedOutNever(t, start) == FALSE

\* millis() - startTime > 300000
TimedOut(t, start) == Elapsed(t, start) > DOWNLOAD_TIMEOUT

\* variant: the loop does not look at the link
LinkUnchecked(w) == TRUE

\* WiFi.status() == WL_CONNECTED at the head of an iteration
LinkUp(w) == w

\* variant: the tenth of the declared length is missing from the test
ProgressAtEveryWrite(written, lastProgress, len) == written - lastProgress > 0

\* written - lastProgress > contentLength / 10
ProgressDue(written, lastProgress, len) == written - lastProgress > len \div 10

\* variant: a count above the declared length passes
SizeAtLeast(written, len) == written >= len

\* variant: the count is not compared with the declared length
SizeUnchecked(written, len) == TRUE

\* written == contentLength after the loop
SizeOk(written, len) == written = len

\* variant: Update.isFinished() is not consulted
CommitEndOnly(endOk, finished) == endOk

\* variant: the result of Update.end() is not consulted
CommitFinishedOnly(endOk, finished) == finished

\* Update.end() && Update.isFinished()
CommitOk(endOk, finished) == endOk /\ finished

\* variant: the wait serves HTTP clients
WaitServesClients == "serve"

\* where control is after the delay(10) of an iteration without data
WaitResume == "download"

\* variant: ESP.restart() is missing and control returns to the caller
RestartMissing(c) == IF c = "loop" THEN "sensor" ELSE "auto"

\* where control is after the ESP.restart() that follows a successful install
RestartTarget(c) == "boot"

InLoop == pc = "download" /\ dl.written < dl.contentLength

\* variant: the tail of downloadAndInstallUpdate leaves the flag as it is
KeptOnReturn(flag) == flag

\* updateInProgress = false before the return: what the tail of
\* downloadAndInstallUpdate stores in place of the flag
ClearedOnReturn(flag) == FALSE

\* the transfer ends in failure: the entries msgs are recorded, then
\* "Update failed" by checkForGitHubUpdate, and control returns to the caller
DlFail(msgs, fault, ended) ==
  /\ LET all == msgs \o <<Entry("ERROR", "OTA", "Update failed")>>
     IN  /\ logMessage(all)
         /\ run' = [run EXCEPT !.log = @ \o all, !.result = "failed",
                               !.fault = fault,
                               !.events = IF ended THEN @ \cup {"end"} ELSE @]
  /\ updateInProgress' = ClearedOnReturn(updateInProgress)
  /\ active' = active - 1
  /\ dl' = NoDl
  /\ sinkOpen' = IF ended THEN FALSE ELSE sinkOpen
  /\ ReturnToCaller(caller)

\* the deadline check breaks the loop
DlTimeout ==
  /\ InLoop
  /\ TimedOut(now, dl.startTime)
  /\ DlFail(<<Entry("ERROR", "OTA", "Download timeout after 5 minutes"),
              Entry("ERROR", "OTA", "Written only")>>, "timeout", FALSE)
  /\ UNCHANGED <<now, wifi, pending, cfgVars, currentVersion, sensorVars>>

\* the connectivity check breaks the loop
DlWifiLost ==
  /\ InLoop
  /\ ~TimedOut(now, dl.startTime)
  /\ ~LinkUp(wifi)
  /\ DlFail(<<Entry("ERROR", "OTA", "WiFi disconnected during download"),
              Entry("ERROR", "OTA", "Written only")>>, "wifi", FALSE)
  /\ UNCHANGED <<now, wifi, pending, cfgVars, currentVersion, sensorVars>>

\* variant: the bytes read are counted, whatever the sink took
CountedAsRead(bytesRead, bytesWritten) == bytesRead

\* written += bytesWritten: what a chunk of bytesRead bytes, of which
\* Update.write took bytesWritten, adds to the counter
Counted(bytesRead, bytesWritten) == bytesWritten

\* an iteration with data: n bytes are read (at most the buffer) and handed
\* to Update.write, which takes all of them or, on an error, none
DlChunk ==
  /\ InLoop
  /\ ~TimedOut(now, dl.startTime)
  /\ LinkUp(wifi)
  /\ \E n \in 1..Min(dl.srcLeft, BUFFER_SIZE), accepted \in BOOLEAN :
       LET bytesWritten == IF accepted THEN n ELSE 0
           w == dl.written + Counted(n, bytesWritten)
           due == ProgressDue(w, dl.lastProgress, dl.contentLength)
           msgs == IF due THEN <<Entry("INFO", "OTA", "Download progress")>>
                          ELSE <<>>
       IN  /\ dl' = [dl EXCEPT !.written = w,
                               !.lastProgress = IF due THEN w ELSE @,
                               !.srcLeft = @ - n,
                               !.accepted = @ + bytesWritten]
           /\ logMessage(msgs)
           /\ run' = [run EXCEPT !.writes = @ + 1, !.log = @ \o msgs]
  /\ UNCHANGED <<pc, caller, now, wifi, pending, cfgVars, currentVersion,
                 lastUpdateCheck, updateInProgress, sensorVars, sinkOpen,
                 active>>

\* iterations without data: delay(10), until the clock shows TickMs more
DlWait ==
  /\ InLoop
  /\ ~TimedOut(now, dl.startTime)
  /\ LinkUp(wifi)
  /\ now + TickMs <= MaxTime
  /\ now' = now + TickMs
  /\ pc' = WaitResume
  /\ UNCHANGED <<caller, wifi, pending, cfgVars, currentVersion,
                 lastUpdateCheck, updateInProgress, sensorVars, logVars, dl,
                 sinkOpen, active, run>>

\* the loop ended with written >= contentLength: size check, Update.end(),
\* Update.isFinished()
DlDone ==
  /\ pc = "download"
  /\ ~(dl.written < dl.contentLength)
  /\ IF ~SizeOk(dl.written, dl.contentLength)
       THEN /\ DlFail(<<Entry("ERROR", "OTA", "Written only")>>, "size", FALSE)
            /\ UNCHANGED currentVersion
       ELSE \E endOk \in BOOLEAN, finished \in BOOLEAN :
              LET m0 == <<Entry("INFO", "OTA", "Firmware download completed")>>
                  fault == IF dl.written # dl.contentLength THEN "size"
                           ELSE IF ~(endOk /\ finished) THEN "finalize"
                           ELSE "none"
              IN
              IF CommitOk(endOk, finished)
                THEN /\ LET msgs == m0 \o <<Entry("INFO", "OTA", "Update successfully completed")>>
                        IN  /\ logMessage(msgs)
                            /\ run' = [run EXCEPT !.log = @ \o msgs,
                                                  !.result = "installed",
                                                  !.fault = fault,
                                                  !.events = @ \cup {"end"}]
                     /\ currentVersion' = dl.version
                     /\ updateInProgress' = FALSE
                     /\ active' = active - 1
                     /\ dl' = NoDl
                     /\ sinkOpen' = FALSE
                     /\ pc' = "installed"
                     /\ UNCHANGED <<caller, lastUpdateCheck>>
                ELSE /\ DlFail(m0 \o (IF endOk
                                        THEN <<Entry("ERROR", "OTA", "Update not finished")>>
                                        ELSE <<Entry("ERROR", "OTA", "Update end failed")>>),
                               fault, TRUE)
                     /\ UNCHANGED currentVersion
  /\ UNCHANGED <<now, wifi, pending, cfgVars, sensorVars>>

\* checkForGitHubUpdate after downloadAndInstallUpdate returned true:
\* the entry, delay(2000), ESP.restart()
Restart ==
  /\ pc = "installed"
  /\ LET msgs == <<Entry("INFO", "OTA", "Update successful, rebooting...")>>
     IN  /\ logMessage(msgs)
         /\ run' = [run EXCEPT !.log = @ \o msgs, !.events = @ \cup {"restart"}]
  /\ pc' = RestartTarget(caller)
  /\ pending' = <<>>
  /\ caller' = "none"
  /\ UNCHANGED <<now, wifi, cfgVars, currentVersion, lastUpdateCheck,
                 updateInProgress, sensorVars, dl, sinkOpen, active>>

----------------------------------------------------------------------------
Next ==
  \/ Boot
  \/ Tick
  \/ WifiChange
  \/ ClientRequest
  \/ ServeNone
  \/ HandleUpdateCheck
  \/ AutoCheck
  \/ AutoSkip
  \/ SensorRead
  \/ SensorSkip
  \/ DlTimeout
  \/ DlWifiLost
  \/ DlChunk
  \/ DlWait
  \/ DlDone
  \/ Restart

Spec == Init /\ [][Next]_vars

TypeOK ==
  /\ pc \in {"boot", "serve", "auto", "sensor", "download", "installed"}
  /\ now \in 0..MaxTime
  /\ logIndex \in 0..(MAX_LOG_ENTRIES - 1)
  /\ active \in 0..1

----------------------------------------------------------------------------
(* Properties of the update run *)

\* the thread took a step of downloadAndInstallUpdate
DlStep == dl' # dl \/ pc' # pc

\* number of entries of the sequence es with the given level and message
RECURSIVE Count(_, _, _)
Count(es, level, message) ==
  IF es = <<>> THEN 0
  ELSE (IF Head(es).level = level /\ Head(es).message = message THEN 1 ELSE 0)
       + Count(Tail(es), level, message)

\* C1: a transfer that wrote exactly the declared length but whose finalize
\* step failed (Update.end() false or Update.isFinished() false) is reported
\* as a failure, leaves currentVersion at its pre-run value and is followed by
\* no restart.
C1_FinalizeFailureFails ==
  run.fault = "finalize" =>
    /\ run.result = "failed"
    /\ currentVersion = run.startVersion
    /\ "restart" \notin run.events
    /\ pc \notin {"installed", "boot"}

C1_Witness ==
  /\ run.fault = "finalize"
  /\ "end" \in run.events
  /\ run.result = "failed"
  /\ run.writes > 0

\* C2: a run that ends in any transfer failure (image status not 200, invalid
\* content length, insufficient space, begin failure, timeout, lost
\* connectivity, size mismatch, finalize failure) leaves currentVersion as it
\* was before the run and does not restart the device.
C2_TransferFailureKeepsVersion ==
  run.fault \in {"http", "length", "space", "begin", "timeout", "wifi",
                 "size", "finalize"} =>
    /\ run.result = "failed"
    /\ currentVersion = run.startVersion
    /\ "restart" \notin run.events
    /\ pc \notin {"installed", "boot"}

C2_Witness ==
  /\ run.fault = "size"
  /\ run.result = "failed"
  /\ run.writes > 0
  /\ currentVersion = run.startVersion

\* C3: when the free sketch space is smaller than the declared content
\* length, the transfer fails before Update.begin and before any
\* Update.write, and the busy flag is clear when it returns.
C3_NoSpaceNoWrite ==
  run.fault = "space" =>
    /\ run.result = "failed"
    /\ "begin" \notin run.events
    /\ run.writes = 0
    /\ ~updateInProgress

C3_Witness ==
  /\ run.fault = "space"
  /\ run.result = "failed"
  /\ "image" \in run.events

\* C4: when WiFi is disconnected at the start of a chunk-loop iteration with
\* fewer bytes written than declared, the transfer writes nothing more to the
\* sink, never calls Update.end, returns failure and leaves currentVersion
\* unchanged.
C4_LinkLostStops ==
  [][(InLoop /\ ~wifi /\ DlStep) =>
       /\ pc' # "download"
       /\ run'.writes = run.writes
       /\ "end" \notin run'.events
       /\ run'.result = "failed"
       /\ currentVersion' = currentVersion]_vars

C4_Witness ==
  /\ run.fault = "wifi"
  /\ run.result = "failed"
  /\ run.writes > 0
  /\ "end" \notin run.events

\* C5: when more than the 5-minute deadline has elapsed since the transfer
\* started at the start of a chunk-loop iteration with fewer bytes written
\* than declared, the transfer stops, never calls Update.end and returns
\* failure with currentVersion unchanged.
C5_DeadlineStops ==
  [][(InLoop /\ now - dl.startTime > DOWNLOAD_TIMEOUT /\ DlStep) =>
       /\ pc' # "download"
       /\ run'.writes = run.writes
       /\ "end" \notin run'.events
       /\ run'.result = "failed"
       /\ currentVersion' = currentVersion]_vars

C5_Witness ==
  /\ run.fault = "timeout"
  /\ run.result = "failed"
  /\ "end" \notin run.events

\* C6: when the resolver returned a non-empty tag T different from
\* currentVersion, the transfer wrote exactly the declared length and the
\* finalize step succeeded, currentVersion becomes T and the next step of the
\* thread is the restart: no loop iteration, sensor read or HTTP request is
\* handled between the successful finalize and the restart.
C6_InstallThenRestart ==
  [][/\ (pc = "download" /\ pc' # "download" /\ run'.fault = "none") =>
          /\ pc' = "installed"
          /\ run.target \notin {"", run.startVersion}
          /\ currentVersion' = run.target
     /\ (pc = "installed" /\ pc' = "installed") =>
          /\ Len(pending') >= Len(pending)
          /\ UNCHANGED <<sensorVars, logVars, lastUpdateCheck, currentVersion,
                         config, run>>
     /\ (pc = "installed" /\ pc' # "installed") =>
          /\ pc' = "boot"
          /\ "restart" \in run'.events
          /\ UNCHANGED <<sensorVars, lastUpdateCheck, currentVersion, config>>
    ]_vars

C6_Witness ==
  /\ pc = "boot"
  /\ "restart" \in run.events
  /\ run.result = "installed"
  /\ run.startVersion = "v1.0.0"
  /\ run.target = "v1.1.0"
  /\ currentVersion = "v1.1.0"

\* C7: after the restart that follows a successful update to version T, the
\* freshly booted device is idle and its currentVersion is T (so that a check
\* whose resolver again returns T starts no transfer).
C7_BootKeepsInstalledVersion ==
  [][(pc = "boot" /\ "restart" \in run.events /\ pc' # "boot") =>
       /\ pc' = "serve"
       /\ ~updateInProgress'
       /\ currentVersion' = run.target]_vars

\* C8: when the resolver returns a tag equal to currentVersion, the run makes
\* no image request, calls neither Update.begin nor Update.write nor
\* Update.end, leaves currentVersion unchanged, restarts nothing, and records
\* exactly one INFO entry "No updates available".
C8_SameVersionNoTransfer ==
  (run.trigger # "none" /\ run.resolverOk /\ run.target = run.startVersion) =>
    /\ run.result = "noupdate"
    /\ run.events = {"meta"}
    /\ run.writes = 0
    /\ currentVersion = run.startVersion
    /\ pc \notin {"download", "installed", "boot"}
    /\ ~updateInProgress
    /\ Count(run.log, "INFO", "No updates available") = 1

C8_Witness ==
  /\ run.trigger # "none"
  /\ run.resolverOk
  /\ run.target = run.startVersion
  /\ run.target = "v1.0.0"
  /\ run.result = "noupdate"

\* C9: at most one update session exists at any time: while the busy flag is
\* set the thread is inside the chunk loop of the one session, and a trigger
\* issued meanwhile starts no second session and leaves the session's state
\* and written byte count unchanged.
C9_OneSession ==
  [][/\ active' <= 1
     /\ updateInProgress' => (pc' = "download" /\ active' = 1)
     /\ (updateInProgress /\ pending' # pending) =>
          /\ dl' = dl
          /\ run' = run
          /\ pc' = pc
          /\ active' = active
          /\ updateInProgress'
    ]_vars

C9_Witness ==
  /\ pc = "download"
  /\ updateInProgress
  /\ dl.written > 0
  /\ pending # <<>>
  /\ Head(pending).kind = "check"
  /\ Head(pending).busy

\* C10: a trigger attempt made while the busy flag is set is dropped: it is
\* not queued, so no update run is ever started by a request that was issued
\* while a session was in progress.
C10_BusyTriggerDropped == ~run.queuedWhileBusy

----------------------------------------------------------------------------
(* The log in isolation: any sequence of logMessage calls, and the log page *)

\* number of logMessage calls of a behaviour of SpecLog
MaxWrites == 6

LogLevels == {"INFO", "ERROR"}

\* generateLogsText: the entries the page lists, in the order it lists them
generateLogsText(buf, idx, cnt) ==
  LET startIndex == IF cnt > MAX_LOG_ENTRIES THEN idx ELSE 0
      displayCount == Min(cnt, MAX_LOG_ENTRIES)
  IN  [i \in 1..displayCount |-> buf[(startIndex + (i - 1)) % MAX_LOG_ENTRIES]]

\* a caller records an entry; the clock shows one more at every call, so the
\* timestamp of an entry is the number of the write that recorded it
LogWrite ==
  /\ now < MaxWrites
  /\ now' = now + 1
  /\ \E level \in LogLevels :
       LET L == LogOne(CurLog, Entry(level, "SYSTEM", "entry"), now + 1)
       IN  /\ logBuffer' = L.buf
           /\ logIndex' = L.idx
           /\ logCount' = L.cnt
  /\ UNCHANGED <<pc, caller, wifi, pending, config, configFile, currentVersion,
                 lastUpdateCheck, updateInProgress, sensorVars, dl, sinkOpen,
                 active, run>>

\* a client asks for GET /logs
LogsRequest ==
  /\ Len(pending) < MaxPending
  /\ pending' = Append(pending, [kind |-> "logs", busy |-> FALSE])
  /\ UNCHANGED <<pc, caller, now, wifi, config, configFile, currentVersion,
                 lastUpdateCheck, updateInProgress, sensorVars, logVars, dl,
                 sinkOpen, active, run>>

\* handleLogsPage: the page is generated and sent; no state of the device
\* changes
HandleLogsPage ==
  /\ pending # <<>>
  /\ Head(pending).kind = "logs"
  /\ pending' = Tail(pending)
  /\ UNCHANGED <<pc, caller, now, wifi, config, configFile, currentVersion,
                 lastUpdateCheck, updateInProgress, sensorVars, logVars, dl,
                 sinkOpen, active, run>>

LogNext ==
  \/ LogWrite
  \/ LogsRequest
  \/ HandleLogsPage

SpecLog == Init /\ [][LogNext]_vars

\* C11: after N logMessage calls generateLogsText lists exactly
\* min(N, MAX_LOG_ENTRIES) entries, in the order they were recorded, and they
\* are the most recent ones: the i-th listed entry is write number
\* N - min(N, MAX_LOG_ENTRIES) + i.
C11_LogsListMostRecent ==
  LET shown == generateLogsText(logBuffer, logIndex, logCount)
      k == Min(now, MAX_LOG_ENTRIES)
  IN  /\ Len(shown) = k
      /\ \A i \in 1..k : shown[i].timestamp = now - k + i

\* the same, for as long as the number of calls is below 2^(IntBits - 1)
LogsListMostRecentBeforeOverflow ==
  now < 2 ^ (IntBits - 1) => C11_LogsListMostRecent

----------------------------------------------------------------------------
(* Properties of the update check *)

\* checkForGitHubUpdate is entered: a run begins with this step
RunStarts == run' # run /\ run'.trigger # "none" /\ pc \in {"serve", "auto"}

\* number of ERROR entries of the sequence es
RECURSIVE Errors(_)
Errors(es) ==
  IF es = <<>> THEN 0
  ELSE (IF Head(es).level = "ERROR" THEN 1 ELSE 0) + Errors(Tail(es))

\* C12: if WiFi is not connected when an update check is triggered (by the
\* scheduler or by a manual request), the run makes no HTTP request to the
\* release-metadata or image endpoint, records an ERROR entry, and leaves
\* currentVersion, the busy flag and the sink unchanged.
C12_NoWifiNoRequest ==
  [][(RunStarts /\ ~wifi) =>
       /\ run'.events = {}
       /\ run'.writes = 0
       /\ Count(run'.log, "ERROR", "WiFi not connected, skipping update check") = 1
       /\ currentVersion' = currentVersion
       /\ updateInProgress' = updateInProgress
       /\ sinkOpen' = sinkOpen
       /\ pc' \in {"auto", "sensor"}]_vars

C12_Witness ==
  /\ run.result = "nowifi"
  /\ run.trigger = "http"
  /\ run.events = {}
  /\ ~wifi
  /\ Errors(run.log) = 1

\* C13: when the release-metadata request returns a status other than 200 or
\* a body that cannot be parsed, the run attempts no transfer, makes no second
\* metadata request (it records the outcome of exactly one request), leaves
\* currentVersion unchanged, and control is back in the idle loop.
C13_ResolverFailureEndsRun ==
  (run.trigger # "none" /\ "meta" \in run.events /\ ~run.resolverOk) =>
    /\ run.events = {"meta"}
    /\ run.writes = 0
    /\ Count(run.log, "INFO", "Checking for GitHub updates...") = 1
    /\ Count(run.log, "ERROR", "GitHub API request failed")
       + Count(run.log, "ERROR", "Failed to parse GitHub API response")
       + Count(run.log, "INFO", "Latest release") = 1
    /\ currentVersion = run.startVersion
    /\ ~updateInProgress
    /\ pc \in {"auto", "sensor"}

C13_Witness ==
  /\ run.trigger = "loop"
  /\ run.events = {"meta"}
  /\ ~run.resolverOk
  /\ Count(run.log, "ERROR", "Failed to parse GitHub API response") = 1
  /\ pc = "sensor"

\* C14: when the release-metadata response has status 200 and parses as JSON
\* but its tag_name member is absent or empty, the run is reported as a
\* failure (an ERROR entry) and no transfer is attempted for any version
\* string (no image request).
C14_MissingTagFails ==
  (run.trigger # "none" /\ run.resolverOk /\ run.tag \in {NoTag, ""}) =>
    /\ "image" \notin run.events
    /\ run.writes = 0
    /\ Errors(run.log) >= 1

\* C15: a run records the INFO entry "No updates available" exactly when its
\* resolver succeeded and returned a tag equal to currentVersion; a run whose
\* resolver failed (bad status, unparsable body, empty tag) does not record it.
C15_NoUpdateEntryOnlyOnEqualTag ==
  (run.trigger # "none" /\ run.result # "running") =>
    (Count(run.log, "INFO", "No updates available") >= 1
       <=> (run.resolverOk /\ run.tag = run.startVersion))

\* a run that met a failure: no link, a resolver failure, or a transfer fault
RunFailed ==
  /\ run.trigger # "none"
  /\ run.result \notin {"running", "installed"}
  /\ \/ run.events = {}
     \/ "meta" \in run.events /\ ~run.resolverOk
     \/ run.fault # "none"

----------------------------------------------------------------------------
(* The decision to download, for any running version and any resolved tag *)

\* the release-metadata endpoint answers 200 with a parsable body whose tag
\* is any version string or empty
DecisionReplies ==
  {[code |-> 200, parseOk |-> TRUE, tag |-> t] : t \in VersionStrings \cup {""}}

\* the device is in loop(), about to evaluate the automatic check, running a
\* build of any version
DecisionInit ==
  /\ pc = "auto"
  /\ caller = "none"
  /\ now = 0
  /\ wifi \in BOOLEAN
  /\ pending = <<>>
  /\ config = [DefaultConfig EXCEPT !.autoUpdate = TRUE, !.updateInterval = 0,
                                    !.wifiSsid = "home"]
  /\ configFile = FileOf(config)
  /\ currentVersion \in VersionStrings \ {"null"}
  /\ lastUpdateCheck = 0
  /\ updateInProgress = FALSE
  /\ lastSensorRead = 0
  /\ lastTemperature = NaN
  /\ lastHumidity = NaN
  /\ lastLogTime = 0
  /\ logBuffer = [i \in 0..(MAX_LOG_ENTRIES - 1) |-> EmptySlot]
  /\ logIndex = 0
  /\ logCount = 0
  /\ dl = NoDl
  /\ sinkOpen = FALSE
  /\ active = 0
  /\ run = NoRun

\* the automatic check of this iteration, up to its return or to the head of
\* the chunk loop
DecisionCheck ==
  /\ pc = "auto"
  /\ run = NoRun
  /\ AutoCheckDue
  /\ CheckWith(DecisionReplies, "loop", <<>>, FALSE)
  /\ UNCHANGED <<now, wifi, pending, cfgVars, currentVersion, sensorVars>>

DecisionNext == DecisionCheck

SpecDecision == DecisionInit /\ [][DecisionNext]_vars

\* C17: the decision to download is string inequality: for every non-empty
\* resolved tag T that differs from currentVersion, including one older than
\* the running version, the run requests the image of T (and a transfer that
\* begins is a transfer of T); for T equal to currentVersion, and for the
\* empty tag, it requests none.
C17_DownloadIffDifferent ==
  (run.trigger # "none" /\ run.resolverOk) =>
    /\ "image" \in run.events
         <=> (run.tag # "" /\ run.tag # run.startVersion)
    /\ run.target = run.tag
    /\ pc = "download" => dl.version = run.tag

C17_Witness ==
  /\ run.resolverOk
  /\ run.startVersion = "v1.0.0"
  /\ run.tag = "v0.9.0"
  /\ "image" \in run.events
  /\ pc = "download"
  /\ dl.version = "v0.9.0"

----------------------------------------------------------------------------
(* The device with its web clients' /reboot and POST /config requests; its
   update checks are those of the scheduler *)

DeviceRequestKinds == {"reboot", "config"}

\* a client sends one of these requests; it is taken as arriving when
\* handleClient is reached
DeviceRequest ==
  /\ pc = "serve"
  /\ Len(pending) < MaxPending
  /\ \E k \in DeviceRequestKinds :
       pending' = Append(pending, [kind |-> k, busy |-> updateInProgress])
  /\ UNCHANGED <<pc, caller, now, wifi, config, configFile, currentVersion,
                 lastUpdateCheck, updateInProgress, sensorVars, logVars, dl,
                 sinkOpen, active, run>>

DeviceNext ==
  \/ Boot
  \/ Tick
  \/ WifiChange
  \/ DeviceRequest
  \/ ServeNone
  \/ HandleReboot
  \/ HandleConfigUpdate
  \/ AutoCheck
  \/ AutoSkip
  \/ SensorRead
  \/ SensorSkip
  \/ DlTimeout
  \/ DlWifiLost
  \/ DlChunk
  \/ DlWait
  \/ DlDone
  \/ Restart

SpecDevice == Init /\ [][DeviceNext]_vars

\* the entry most recently written to the log
LastEntry == logBuffer[(logIndex + MAX_LOG_ENTRIES - 1) % MAX_LOG_ENTRIES]

\* C19: the device restarts only immediately after a successful end-of-update
\* commit or on an explicit /reboot request; a failed update run, a failed
\* sensor read, a failed configuration save and a failed configuration load
\* each leave control in setup()/loop(), which goes on.
C19_RestartOnlyAfterCommitOrReboot ==
  [][/\ (pc # "boot" /\ pc' = "boot") =>
          \/ /\ pc = "installed"
             /\ run.result = "installed"
             /\ run.fault = "none"
             /\ "end" \in run.events
          \/ /\ pc = "serve"
             /\ pending # <<>>
             /\ Head(pending).kind = "reboot"
     /\ (run' # run /\ run'.result \in {"nowifi", "noupdate", "failed"}) =>
          pc' \in {"auto", "sensor"}
     /\ (pc = "sensor" /\ pc' # pc) => pc' = "serve"
     /\ (pc = "serve" /\ pc' # pc /\ pending # <<>>
           /\ Head(pending).kind = "config") => pc' = "auto"
     /\ (pc = "boot" /\ pc' # pc) => pc' = "serve"
    ]_vars

\* a /reboot request has just been handled, after a configuration save failed
C19_Witness ==
  /\ pc = "boot"
  /\ run = NoRun
  /\ LastEntry.message = "Manual reboot requested"
  /\ config.autoUpdate
  /\ ~configFile.exists

\* C20: after any failed update run the flash sink is back in its prior
\* state: no write session opened by Update.begin is left open (so that a
\* later trigger can begin a fresh transfer).
C20_FailedRunClosesSink ==
  (run.trigger # "none" /\ run.result \in {"nowifi", "noupdate", "failed"}) =>
    ~sinkOpen

----------------------------------------------------------------------------
(* The scheduler over hours: automatic checks only, intervals of 0, 1 and 2
   hours, the clock advancing an hour at a time *)

\* hours the clock of SpecSched runs
MaxSchedHours == 2

\* values of updateInterval in the persisted configuration, in hours
SchedIntervals == {0, 1, 2}

SchedFiles ==
  {FileOf([autoUpdate |-> a, updateInterval |-> i, wifiSsid |-> "home"]) :
     a \in BOOLEAN, i \in SchedIntervals}

\* power-on with any of these configurations persisted
SchedInit ==
  /\ pc = "boot"
  /\ caller = "none"
  /\ now = 0
  /\ wifi \in BOOLEAN
  /\ pending = <<>>
  /\ config = DefaultConfig
  /\ configFile \in SchedFiles
  /\ currentVersion = BootVersion
  /\ lastUpdateCheck = 0
  /\ updateInProgress = FALSE
  /\ lastSensorRead = 0
  /\ lastTemperature = NaN
  /\ lastHumidity = NaN
  /\ lastLogTime = 0
  /\ logBuffer = [i \in 0..(MAX_LOG_ENTRIES - 1) |-> EmptySlot]
  /\ logIndex = 0
  /\ logCount = 0
  /\ dl = NoDl
  /\ sinkOpen = FALSE
  /\ active = 0
  /\ run = NoRun

\* millis() shows an hour more
HourTick ==
  /\ pc # "boot"
  /\ now + MS_PER_HOUR <= MaxSchedHours * MS_PER_HOUR
  /\ now' = now + MS_PER_HOUR
  /\ UNCHANGED <<pc, caller, wifi, pending, config, configFile, currentVersion,
                 lastUpdateCheck, updateInProgress, sensorVars, logVars, dl,
                 sinkOpen, active, run>>

SchedNext ==
  \/ Boot
  \/ HourTick
  \/ WifiChange
  \/ ServeNone
  \/ AutoCheck
  \/ AutoSkip
  \/ SensorRead
  \/ SensorSkip
  \/ DlTimeout
  \/ DlWifiLost
  \/ DlChunk
  \/ DlDone
  \/ Restart

SpecSched == SchedInit /\ [][SchedNext]_vars

\* C18: an automatic update check starts in a loop iteration only if
\* autoUpdate is enabled and at least updateInterval hours have elapsed since
\* lastUpdateCheck; when an automatic check returns, whatever its outcome,
\* lastUpdateCheck becomes the current time; and lastUpdateCheck never moves
\* back while the device runs and starts equal to the clock after a restart,
\* so two consecutive automatic checks are at least the configured interval
\* apart.
C18_AutoCheckAfterInterval ==
  [][/\ (RunStarts /\ run'.trigger = "loop") =>
          /\ config.autoUpdate
          /\ now - lastUpdateCheck >= config.updateInterval * MS_PER_HOUR
     /\ (run' # run /\ run'.trigger = "loop"
           /\ run'.result \in {"nowifi", "noupdate", "failed"}) =>
          lastUpdateCheck' = now'
     /\ pc # "boot" => (lastUpdateCheck <= lastUpdateCheck' /\ lastUpdateCheck' <= now')
     /\ pc = "boot" => lastUpdateCheck' = now'
    ]_vars

C18_Witness ==
  /\ config.autoUpdate
  /\ config.updateInterval = 2
  /\ run.trigger = "loop"
  /\ run.result = "failed"
  /\ now = 2 * MS_PER_HOUR
  /\ lastUpdateCheck = now

----------------------------------------------------------------------------
(* Integrity of the installed image *)

\* verifyFirmwareChecksum: code is the status of the checksums.txt GET, listed
\* whether a line of the file names the firmware file.  No digest of the
\* downloaded image is computed or compared.  The function is defined in the
\* source and called from nowhere: no step of an update run evaluates it
verifyFirmwareChecksum(code, listed) == code = HTTP_CODE_OK /\ listed

\* C21: a downloaded image is committed (sink finalized, currentVersion
\* updated, restart to follow) only after its checksum was verified in that
\* run: a run that installed has a "checksum" event.
C21_CommitOnlyAfterChecksum ==
  (run.trigger # "none" /\ run.result = "installed") =>
    "checksum" \in run.events

----------------------------------------------------------------------------
(* The sensor cache and the pages that present it: the clock advances by
   PollTickMs, so that a poll is due at every new time and a successful one
   is logged; clients of GET / and GET /metrics; no automatic update check
   (autoUpdate is off in the default configuration) *)

\* times the clock of SpecSensor advances
MaxPolls == 3

PollTickMs == SENSOR_LOG_INTERVAL + SENSOR_READ_INTERVAL

\* readings of the driver: invalid, or one of two valid values
PollReadings == {NaN, 21, 22}

SensorRequestKinds == {"root", "metrics"}

\* power-on with no configuration file
SensorInit ==
  /\ Init
  /\ configFile = NoFile

\* millis() shows PollTickMs more
PollTick ==
  /\ pc # "boot"
  /\ now + PollTickMs <= MaxPolls * PollTickMs
  /\ now' = now + PollTickMs
  /\ UNCHANGED <<pc, caller, wifi, pending, config, configFile, currentVersion,
                 lastUpdateCheck, updateInProgress, sensorVars, logVars, dl,
                 sinkOpen, active, run>>

SensorRequest ==
  /\ pc = "serve"
  /\ Len(pending) < MaxPending
  /\ \E k \in SensorRequestKinds :
       pending' = Append(pending, [kind |-> k, busy |-> updateInProgress])
  /\ UNCHANGED <<pc, caller, now, wifi, config, configFile, currentVersion,
                 lastUpdateCheck, updateInProgress, sensorVars, logVars, dl,
                 sinkOpen, active, run>>

\* generateRootPageHTML: the sensor fields of the dashboard
generateRootPageHTML(t, h) ==
  [sensorStatus |-> IF t # NaN /\ h # NaN THEN "OK" ELSE "FAIL",
   temperature |-> IF t = NaN THEN "N/A" ELSE ToString(t),
   humidity |-> IF h = NaN THEN "N/A" ELSE ToString(h)]

\* generatePrometheusMetrics: the sensor samples of the exposition, as
\* <<metric name, value>> pairs
generatePrometheusMetrics(t, h) ==
  (IF t # NaN THEN {<<"esp32_temperature_celsius", t>>} ELSE {})
  \cup (IF h # NaN THEN {<<"esp32_humidity_percent", h>>} ELSE {})
  \cup {<<"esp32_sensor_status", IF t # NaN /\ h # NaN THEN 1 ELSE 0>>}

\* handleRootPage and handleMetrics: the page is generated from the cache and
\* sent; no state of the device changes
HandleRootPage ==
  /\ pc = "serve"
  /\ pending # <<>>
  /\ Head(pending).kind = "root"
  /\ pending' = Tail(pending)
  /\ pc' = "auto"
  /\ UNCHANGED <<caller, now, wifi, cfgVars, currentVersion,
                 lastUpdateCheck, updateInProgress, sensorVars, logVars, dl,
                 sinkOpen, active, run>>

HandleMetrics ==
  /\ pc = "serve"
  /\ pending # <<>>
  /\ Head(pending).kind = "metrics"
  /\ pending' = Tail(pending)
  /\ pc' = "auto"
  /\ UNCHANGED <<caller, now, wifi, cfgVars, currentVersion,
                 lastUpdateCheck, updateInProgress, sensorVars, logVars, dl,
                 sinkOpen, active, run>>

SensorPoll == SensorReadOf(PollReadings)

SensorNext ==
  \/ Boot
  \/ PollTick
  \/ SensorRequest
  \/ ServeNone
  \/ HandleRootPage
  \/ HandleMetrics
  \/ AutoSkip
  \/ SensorPoll
  \/ SensorSkip

SpecSensor == SensorInit /\ [][SensorNext]_vars

\* the pages present no temperature and no humidity value
NoReadingPresented ==
  LET page == generateRootPageHTML(lastTemperature, lastHumidity)
      metrics == generatePrometheusMetrics(lastTemperature, lastHumidity)
  IN  /\ page.temperature = "N/A"
      /\ page.humidity = "N/A"
      /\ page.sensorStatus = "FAIL"
      /\ metrics = {<<"esp32_sensor_status", 0>>}

\* this step is a poll that readDHT22 found invalid
PollFailed ==
  /\ pc = "sensor"
  /\ lastSensorRead' # lastSensorRead
  /\ logCount' # logCount
  /\ logBuffer'[(logIndex' + MAX_LOG_ENTRIES - 1) % MAX_LOG_ENTRIES].message
       = "Failed to read from DHT sensor"

\* C22: after a sensor poll that fails, the dashboard and /metrics present no
\* temperature and no humidity value (the cache holds none), and a value is
\* presented again only by a later poll that succeeds.
C22_FailedPollInvalidatesCache ==
  [][/\ PollFailed => NoReadingPresented'
     /\ (NoReadingPresented /\ ~NoReadingPresented') =>
          /\ pc = "sensor"
          /\ lastSensorRead' = now
          /\ lastTemperature' # NaN
          /\ lastHumidity' # NaN
    ]_vars

\* a poll has failed after an earlier one had cached a reading
C22_Witness ==
  /\ NoReadingPresented
  /\ LastEntry.message = "Failed to read from DHT sensor"
  /\ LastEntry.timestamp = 2 * PollTickMs
  /\ lastSensorRead = 2 * PollTickMs
  /\ lastLogTime = PollTickMs

\* C23: when the sensor driver reports an invalid reading, the cached
\* temperature and humidity keep the values they had (they are retained, not
\* overwritten).
C23_FailedPollRetainsCache ==
  [][PollFailed =>
       /\ lastTemperature' = lastTemperature
       /\ lastHumidity' = lastHumidity]_vars

----------------------------------------------------------------------------
(* The configuration store: POST /config with any of the form values below,
   /reboot, and the loadConfig of the setup() that follows.  The clock stays
   within the first hour after power-on, so no automatic check and no sensor
   poll is due *)

\* values of the update_interval and wifi_ssid form arguments
ConfigIntervalArgs == {1, NoArg}
ConfigSsidArgs == {NoSsid, "", "home"}

\* power-on with no configuration file
ConfigInit ==
  /\ Init
  /\ configFile = NoFile

ConfigRequest ==
  /\ pc = "serve"
  /\ Len(pending) < MaxPending
  /\ \E k \in DeviceRequestKinds :
       pending' = Append(pending, [kind |-> k, busy |-> updateInProgress])
  /\ UNCHANGED <<pc, caller, now, wifi, config, configFile, currentVersion,
                 lastUpdateCheck, updateInProgress, sensorVars, logVars, dl,
                 sinkOpen, active, run>>

ConfigPost == ConfigUpdateWith(ConfigIntervalArgs, ConfigSsidArgs)

ConfigNext ==
  \/ Boot
  \/ ConfigRequest
  \/ ServeNone
  \/ HandleReboot
  \/ ConfigPost
  \/ AutoSkip
  \/ SensorSkip

SpecConfig == ConfigInit /\ [][ConfigNext]_vars

\* the record setup() is left with when /config.json cannot be opened
UnreadConfig == [DefaultConfig EXCEPT !.wifiSsid = "ssid"]

\* C24: for every configuration record c, an empty WiFi SSID included, a
\* successful saveConfig of c leaves a file that holds c, and a loadConfig
\* that reads that file leaves a record in memory equal to c in every field
\* (a loadConfig that cannot open the file leaves the default record).
C24_SaveLoadRoundTrip ==
  [][/\ (configFile' # configFile) => configFile' = FileOf(config')
     /\ (pc = "boot" /\ pc' = "serve" /\ configFile.exists) =>
          \/ FileOf(config') = configFile
          \/ config' = UnreadConfig
    ]_vars

\* the same, for the records whose WiFi SSID is not empty
SaveLoadRoundTripWithSsid ==
  [][/\ (configFile' # configFile) => configFile' = FileOf(config')
     /\ (pc = "boot" /\ pc' = "serve" /\ configFile.exists
           /\ configFile.wifiSsid # "") =>
          \/ FileOf(config') = configFile
          \/ config' = UnreadConfig
    ]_vars

----------------------------------------------------------------------------
(* The variant of the firmware with the otaEnabled setting (lines 1-2084):
   its loop() and its handleUpdateRequest.  checkForGitHubUpdate and
   getLatestGitHubRelease are the same text in both variants; the release
   server offers nothing newer here, so every check ends without a transfer *)

\* answers of the release-metadata endpoint that lead to no transfer
OtaReplies ==
  {[code |-> 404, parseOk |-> FALSE, tag |-> ""],
   [code |-> 200, parseOk |-> TRUE, tag |-> BootVersion]}

\* the device is in loop() after setup() loaded a configuration whose
\* otaEnabled and autoUpdate are set either way
OtaInit ==
  /\ pc = "serve"
  /\ caller = "none"
  /\ now = 0
  /\ wifi \in BOOLEAN
  /\ pending = <<>>
  /\ \E ota \in BOOLEAN, auto \in BOOLEAN :
       /\ config = [autoUpdate |-> auto, updateInterval |-> 0,
                    otaEnabled |-> ota]
       /\ configFile = [exists |-> TRUE, autoUpdate |-> auto,
                        updateInterval |-> 0, otaEnabled |-> ota]
  /\ currentVersion = BootVersion
  /\ lastUpdateCheck = 0
  /\ updateInProgress = FALSE
  /\ lastSensorRead = 0
  /\ lastTemperature = NaN
  /\ lastHumidity = NaN
  /\ lastLogTime = 0
  /\ logBuffer = [i \in 0..(MAX_LOG_ENTRIES - 1) |-> EmptySlot]
  /\ logIndex = 0
  /\ logCount = 0
  /\ dl = NoDl
  /\ sinkOpen = FALSE
  /\ active = 0
  /\ run = NoRun

\* handleUpdateRequest of this variant, GET /update?action=check
OtaManualCheck ==
  /\ pc = "serve"
  /\ pending # <<>>
  /\ Head(pending).kind = "check"
  /\ pending' = Tail(pending)
  /\ CheckWith(OtaReplies, "http",
               <<Entry("INFO", "OTA", "Manual update check requested")>>,
               Head(pending).busy)
  /\ UNCHANGED <<now, wifi, cfgVars, currentVersion, sensorVars>>

\* loop() of this variant: if (config.otaEnabled) { ... if (config.autoUpdate
\* && !updateInProgress) { ... } }
OtaAutoCheck ==
  /\ pc = "auto"
  /\ config.otaEnabled
  /\ AutoCheckDue
  /\ CheckWith(OtaReplies, "loop", <<>>, FALSE)
  /\ UNCHANGED <<now, wifi, pending, cfgVars, currentVersion, sensorVars>>

OtaAutoSkip ==
  /\ pc = "auto"
  /\ ~(config.otaEnabled /\ AutoCheckDue)
  /\ pc' = "sensor"
  /\ run' = NoRun
  /\ UNCHANGED <<caller, now, wifi, pending, cfgVars, currentVersion,
                 lastUpdateCheck, updateInProgress, sensorVars, logVars, dl,
                 sinkOpen, active>>

OtaNext ==
  \/ WifiChange
  \/ ClientRequest
  \/ ServeNone
  \/ OtaManualCheck
  \/ OtaAutoCheck
  \/ OtaAutoSkip
  \/ SensorSkip

SpecOta == OtaInit /\ [][OtaNext]_vars

\* C25: while config.otaEnabled is false no update check is started, by the
\* scheduler or by a manual request.
C25_NoCheckWhileOtaDisabled ==
  [][RunStarts => config.otaEnabled]_vars

\* the same, for the checks the scheduler starts
NoAutoCheckWhileOtaDisabled ==
  [][(RunStarts /\ run'.trigger = "loop") => config.otaEnabled]_vars

----------------------------------------------------------------------------
(* Properties of the end of a transfer *)

\* C26: Update.end() is called only when the chunk loop has ended with the
\* written byte count equal to the declared content length; a transfer that
\* leaves the loop with a count below or above the declared length is
\* reported as a failure and Update.end() is not called.
C26_EndOnlyOnExactSize ==
  [][/\ ("end" \notin run.events /\ "end" \in run'.events) =>
          /\ pc = "download"
          /\ dl.written = dl.contentLength
     /\ (pc = "download" /\ pc' # "download"
           /\ dl.written # dl.contentLength) =>
          /\ run'.result = "failed"
          /\ "end" \notin run'.events
          /\ Count(run'.log, "ERROR", "Written only") = 1
    ]_vars

\* a transfer ended above the declared length, without Update.end()
C26_Witness ==
  /\ run.fault = "size"
  /\ run.result = "failed"
  /\ "end" \notin run.events
  /\ run.writes = 2
  /\ Count(run.log, "ERROR", "Written only") = 1
  /\ sinkOpen

\* C27: currentVersion has a single writer: while the device runs it changes
\* only in the step of an update run in which Update.end() returned true and
\* Update.isFinished() is true after the declared length was written, and it
\* becomes the version string the resolver returned in that run; no handler
\* (POST /config, /reboot), no scheduler or sensor step and no other step of
\* loop() changes it.  (setup() starts from the compiled-in value.)
C27_VersionSingleWriter ==
  [][/\ (pc # "boot" /\ currentVersion' # currentVersion) =>
          /\ pc = "download"
          /\ run.result = "running"
          /\ run.resolverOk
          /\ dl.written = dl.contentLength
          /\ run'.result = "installed"
          /\ run'.fault = "none"
          /\ "end" \in run'.events
          /\ currentVersion' = run.target
          /\ currentVersion' = AsString(run.tag)
     /\ pc = "boot" => currentVersion' = BootVersion
    ]_vars

\* the scheduler's run has just committed the resolved tag, on a device
\* whose configuration was changed through POST /config
C27_Witness ==
  /\ pc = "installed"
  /\ run.trigger = "loop"
  /\ run.tag = "v1.1.0"
  /\ run.startVersion = "v1.0.0"
  /\ currentVersion = "v1.1.0"
  /\ ~configFile.exists
  /\ config.autoUpdate

----------------------------------------------------------------------------
(* Termination of an update session: the scheduler's checks, with a clock
   that goes on during a transfer, and the thread always taking its next
   step *)

\* the latest time the clock of SpecLive shows: a transfer starts by MaxTime
\* and its deadline check ends it within DOWNLOAD_TIMEOUT and one more wait
MaxLiveTime == MaxTime + DOWNLOAD_TIMEOUT + TickMs

\* iterations without data: delay(10), until the clock shows TickMs more
LiveWait ==
  /\ InLoop
  /\ ~TimedOut(now, dl.startTime)
  /\ LinkUp(wifi)
  /\ now + TickMs <= MaxLiveTime
  /\ now' = now + TickMs
  /\ pc' = WaitResume
  /\ UNCHANGED <<caller, wifi, pending, cfgVars, currentVersion,
                 lastUpdateCheck, updateInProgress, sensorVars, logVars, dl,
                 sinkOpen, active, run>>

\* the steps of the thread inside downloadAndInstallUpdate
DlThread ==
  \/ DlTimeout
  \/ DlWifiLost
  \/ DlChunk
  \/ LiveWait
  \/ DlDone

LiveNext ==
  \/ Boot
  \/ Tick
  \/ WifiChange
  \/ ServeNone
  \/ AutoCheck
  \/ AutoSkip
  \/ SensorRead
  \/ SensorSkip
  \/ DlTimeout
  \/ DlWifiLost
  \/ DlChunk
  \/ LiveWait
  \/ DlDone
  \/ Restart

\* the thread is never stopped inside downloadAndInstallUpdate: it goes on to
\* the next iteration of the chunk loop, and time passes while it waits for
\* data
SpecLive == Init /\ [][LiveNext]_vars /\ WF_vars(DlThread)

\* C28: every started update session terminates: once the busy flag is set,
\* control eventually leaves downloadAndInstallUpdate with the flag cleared
\* (back in loop() or on the way to the restart); and a transfer whose source
\* delivers no more bytes leaves the chunk loop through the deadline check
\* (or the link check, if the link drops first).
C28_SessionTerminates ==
  /\ updateInProgress ~> (~updateInProgress /\ pc # "download")
  /\ (InLoop /\ dl.srcLeft = 0) ~>
       (run.result = "failed" /\ run.fault \in {"timeout", "wifi"}
          /\ ~updateInProgress)

\* a transfer that began at the last time the clock allows has ended through
\* the deadline check
C28_Witness ==
  /\ run.result = "failed"
  /\ run.fault = "timeout"
  /\ ~updateInProgress
  /\ pc = "sensor"
  /\ now = 2 * TickMs

----------------------------------------------------------------------------
(* The progress entries of one transfer, for every declared length up to
   MaxProgressLength and every chunking of a source that delivers the declared
   length or more *)

\* largest declared content length of SpecProgress
MaxProgressLength == 20

\* the release server offers a new version
ProgressReplies == {[code |-> 200, parseOk |-> TRUE, tag |-> "v1.1.0"]}

\* the image endpoint declares any length from 1 up and delivers that many
\* bytes or more; the sketch space takes it and Update.begin succeeds
ProgressImages ==
  {[code |-> 200, len |-> l, free |-> MaxProgressLength, canBegin |-> TRUE,
    src |-> l + more] : l \in 1..MaxProgressLength, more \in 0..BUFFER_SIZE}

\* the device is in loop(), about to run the automatic check, the link up
ProgressInit ==
  /\ DecisionInit
  /\ wifi
  /\ currentVersion = BootVersion

ProgressCheck ==
  /\ pc = "auto"
  /\ run = NoRun
  /\ AutoCheckDue
  /\ CheckOf(ProgressReplies, ProgressImages, "loop", <<>>, FALSE)
  /\ UNCHANGED <<now, wifi, pending, cfgVars, currentVersion, sensorVars>>

ProgressNext ==
  \/ ProgressCheck
  \/ DlChunk
  \/ DlDone

SpecProgress == ProgressInit /\ [][ProgressNext]_vars

\* progress entries the run has recorded
ProgressEntries(r) == Count(r.log, "INFO", "Download progress")

\* C29: progress entries are never recorded more often than once per 10% of
\* the declared length: for every declared length >= 1 and every chunking,
\* an entry is recorded only when more than contentLength / 10 bytes were
\* written since the previous one, so one transfer records fewer than 10
\* progress entries.
C29_ProgressAtMostEveryTenth ==
  [][/\ ProgressEntries(run') # ProgressEntries(run) =>
          /\ ProgressEntries(run') = ProgressEntries(run) + 1
          /\ dl'.written - dl.lastProgress > dl.contentLength \div 10
          /\ dl'.lastProgress = dl'.written
     /\ ProgressEntries(run') < 10
    ]_vars

\* C29 as amended: an entry is recorded only when more than
\* contentLength / 10 bytes were written since the previous one, so one
\* transfer records at most 10 progress entries, and fewer than 10 unless it
\* wrote more bytes than the declared length.
C29_ProgressAtMostTen ==
  [][/\ ProgressEntries(run') # ProgressEntries(run) =>
          /\ ProgressEntries(run') = ProgressEntries(run) + 1
          /\ dl'.written - dl.lastProgress > dl.contentLength \div 10
          /\ dl'.lastProgress = dl'.written
     /\ ProgressEntries(run') <= 10
     /\ ProgressEntries(run') = 10 =>
          (IF pc' = "download" THEN dl'.written > dl'.contentLength
                               ELSE run'.fault = "size")
    ]_vars

\* a transfer of 19 declared bytes has recorded its tenth progress entry
C29_Witness ==
  /\ pc = "download"
  /\ dl.contentLength = 19
  /\ dl.written = 20
  /\ ProgressEntries(run) = 10

----------------------------------------------------------------------------
(* The write counter of the log *)

\* C30: logCount is never reset: over any number of logMessage calls, with
\* int arithmetic of width IntBits, its value never decreases, and after
\* every call generateLogsText lists the most recent min(writes, capacity)
\* entries in the order they were recorded.
C30_LogCountNeverDecreases ==
  [][/\ logCount' >= logCount
     /\ logCount' # logCount =>
          LET shown == generateLogsText(logBuffer', logIndex', logCount')
              k == Min(now', MAX_LOG_ENTRIES)
          IN  /\ Len(shown) = k
              /\ \A i \in 1..k : shown[i].timestamp = now' - k + i
    ]_vars

\* the same, for the calls before the counter reaches 2^(IntBits - 1)
LogCountGrowsBeforeOverflow ==
  [][now' < 2 ^ (IntBits - 1) =>
       /\ logCount' >= logCount
       /\ logCount' # logCount => logCount' = logCount + 1]_vars

----------------------------------------------------------------------------
(* Properties of the declared content length *)

\* C31: when the image endpoint answers 200 with a declared content length
\* that is zero or unknown (<= 0), the transfer fails with the ERROR entry
\* "Invalid content length", Update.begin is not called, the sink receives no
\* write and is not ended, and the busy flag is clear when the run returns.
C31_InvalidLengthFails ==
  run.fault = "length" =>
    /\ run.result = "failed"
    /\ run.events = {"meta", "image"}
    /\ run.writes = 0
    /\ Count(run.log, "ERROR", "Invalid content length") = 1
    /\ Count(run.log, "INFO", "Starting firmware update") = 0
    /\ ~updateInProgress
    /\ pc \in {"auto", "sensor"}

C31_Witness ==
  /\ run.fault = "length"
  /\ run.trigger = "http"
  /\ run.result = "failed"
  /\ Count(run.log, "ERROR", "Invalid content length") = 1
  /\ pc = "auto"


----------------------------------------------------------------------------
(* setup() step by step: the mount of SPIFFS and loadConfig, then the start
   of connectWiFi, then each attempt of its polling loop, then the rest of
   setup().  pc takes two more values here: "loaded" (loadConfig returned)
   and "connect" (inside the polling loop of connectWiFi).  The device is
   observed from power-on until the first sensor poll would be due; the
   update intervals on offer are an hour or more, so no automatic check is
   due either *)

\* connectWiFi: while (... && attempts < 20)
MAX_ATTEMPTS == 20
\* connectWiFi: delay(1000) of every attempt
ATTEMPT_DELAY == 1000

\* what the device may find persisted at power-on
SetupFiles ==
  {NoFile, CorruptFile,
   FileOf([autoUpdate |-> TRUE, updateInterval |-> 1, wifiSsid |-> "home"])}

\* values of the update_interval and wifi_ssid form arguments
SetupIntervalArgs == {1, NoArg}
SetupSsidArgs == {NoSsid, "home"}

SetupInit ==
  /\ pc = "boot"
  /\ caller = "none"
  /\ now = 0
  /\ wifi \in BOOLEAN
  /\ pending = <<>>
  /\ config = DefaultConfig
  /\ configFile \in SetupFiles
  /\ currentVersion = BootVersion
  /\ lastUpdateCheck = 0
  /\ updateInProgress = FALSE
  /\ lastSensorRead = 0
  /\ lastTemperature = NaN
  /\ lastHumidity = NaN
  /\ lastLogTime = 0
  /\ logBuffer = [i \in 0..(MAX_LOG_ENTRIES - 1) |-> EmptySlot]
  /\ logIndex = 0
  /\ logCount = 0
  /\ dl = NoDl
  /\ sinkOpen = FALSE
  /\ active = 0
  /\ run = NoRun

\* setup() up to the return of loadConfig.  mountOk: the result of
\* SPIFFS.begin(true); on an unmounted file system SPIFFS.exists is false.
\* The globals take their initial values as in Boot
SetupLoad ==
  /\ pc = "boot"
  /\ \E mountOk \in BOOLEAN, openOk \in BOOLEAN :
       LET f == IF mountOk THEN configFile ELSE NoFile
           ld == loadConfig(DefaultConfig, f, openOk)
           L0 == [buf |-> [i \in 0..(MAX_LOG_ENTRIES - 1) |-> EmptySlot],
                  idx |-> 0, cnt |-> 0]
           L == LogSeq(L0, ld.msgs, 0)
       IN  /\ config' = ld.config
           /\ logBuffer' = L.buf
           /\ logIndex' = L.idx
           /\ logCount' = L.cnt
  /\ now' = 0
  /\ wifi' = FALSE
  /\ currentVersion' = BootVersion
  /\ lastUpdateCheck' = 0
  /\ updateInProgress' = FALSE
  /\ lastSensorRead' = 0
  /\ lastTemperature' = NaN
  /\ lastHumidity' = NaN
  /\ lastLogTime' = 0
  /\ pending' = <<>>
  /\ dl' = NoDl
  /\ sinkOpen' = FALSE
  /\ active' = 0
  /\ caller' = "none"
  /\ pc' = "loaded"
  /\ run' = NoRun
  /\ UNCHANGED configFile

\* connectWiFi up to its polling loop: WiFi.begin and the first entry
ConnectBegin ==
  /\ pc = "loaded"
  /\ logMessage(<<Entry("INFO", "NETWORK", "Connecting to WiFi...")>>)
  /\ pc' = "connect"
  /\ UNCHANGED <<caller, now, wifi, pending, cfgVars, currentVersion,
                 lastUpdateCheck, updateInProgress, sensorVars, dl,
                 sinkOpen, active, run>>

\* the local attempts of connectWiFi: every attempt is a delay(1000), and the
\* clock read 0 when setup() began
attempts == now \div ATTEMPT_DELAY

\* variant: the polling loop has no bound on its attempts
AttemptsUnbounded(n) == TRUE

\* attempts < 20
AttemptsLeft(n) == n < MAX_ATTEMPTS

\* one turn of while (WiFi.status() != WL_CONNECTED && attempts < 20)
ConnectWait ==
  /\ pc = "connect"
  /\ ~wifi
  /\ AttemptsLeft(attempts)
  /\ now + ATTEMPT_DELAY <= MaxTime
  /\ now' = now + ATTEMPT_DELAY
  /\ UNCHANGED <<pc, caller, wifi, pending, cfgVars, currentVersion,
                 lastUpdateCheck, updateInProgress, sensorVars, logVars, dl,
                 sinkOpen, active, run>>

\* the loop of connectWiFi is left; its closing entry, setupWebServer,
\* setupOTA and the closing entry of setup()
SetupRest ==
  /\ pc = "connect"
  /\ wifi \/ ~AttemptsLeft(attempts)
  /\ logMessage((IF wifi
                   THEN <<Entry("INFO", "NETWORK", "WiFi connected")>>
                   ELSE <<Entry("ERROR", "NETWORK", "WiFi connection failed")>>)
                \o <<Entry("INFO", "SYSTEM", "HTTP server started on port 80"),
                     Entry("INFO", "OTA", "OTA updater initialized"),
                     Entry("INFO", "SYSTEM", "ESP32 DHT22 sensor server started")>>)
  /\ pc' = "serve"
  /\ UNCHANGED <<caller, now, wifi, pending, cfgVars, currentVersion,
                 lastUpdateCheck, updateInProgress, sensorVars, dl,
                 sinkOpen, active, run>>

\* the access point comes into reach or goes out of it
SetupWifiChange ==
  /\ pc \in {"connect", "serve"}
  /\ wifi' = ~wifi
  /\ UNCHANGED <<pc, caller, now, pending, config, configFile, currentVersion,
                 lastUpdateCheck, updateInProgress, sensorVars, logVars, dl,
                 sinkOpen, active, run>>

SetupRequest ==
  /\ pc = "serve"
  /\ Len(pending) < MaxPending
  /\ \E k \in DeviceRequestKinds :
       pending' = Append(pending, [kind |-> k, busy |-> updateInProgress])
  /\ UNCHANGED <<pc, caller, now, wifi, config, configFile, currentVersion,
                 lastUpdateCheck, updateInProgress, sensorVars, logVars, dl,
                 sinkOpen, active, run>>

SetupPost == ConfigUpdateWith(SetupIntervalArgs, SetupSsidArgs)

\* the steps of setup()
SetupThread == SetupLoad \/ ConnectBegin \/ ConnectWait \/ SetupRest

SetupNext ==
  \/ SetupLoad
  \/ ConnectBegin
  \/ ConnectWait
  \/ SetupRest
  \/ SetupWifiChange
  \/ SetupRequest
  \/ ServeNone
  \/ HandleReboot
  \/ SetupPost
  \/ AutoSkip
  \/ SensorSkip

\* setup() runs on the only thread there is and nothing preempts it for good
SpecSetup == SetupInit /\ [][SetupNext]_vars /\ WF_vars(SetupThread)

\* the log holds an entry of the given level / with the given message
Logged(buf, level) == \E i \in DOMAIN buf : buf[i].level = level
LoggedMessage(buf, message) == \E i \in DOMAIN buf : buf[i].message = message

\* C32: a load of a configuration file that exists (and is seen to exist: the
\* file system is mounted) but cannot be opened or parsed, and a save that
\* cannot open the file, are each logged as an error and the device goes on
\* (to connectWiFi, to the rest of loop()); a failed load is never logged as
\* "Configuration loaded from file".
C32_StoreFailuresLoggedAsErrors ==
  [][/\ (pc = "boot" /\ configFile.exists /\ FileOf(config') # configFile
           /\ ~LoggedMessage(logBuffer', "Using default configuration")) =>
          /\ pc' = "loaded"
          /\ Logged(logBuffer', "ERROR")
          /\ ~LoggedMessage(logBuffer', "Configuration loaded from file")
     /\ (pc = "serve" /\ pc' = "auto" /\ config' # config
           /\ configFile' # FileOf(config')) =>
          LoggedMessage(logBuffer', "Failed to save configuration")
    ]_vars

\* the part of it that the program has: a failed save is logged as an error
\* and the handler returns to loop() with the new record in memory
FailedSaveLoggedAsError ==
  [][(pc = "serve" /\ pc' = "auto" /\ pending # <<>>
        /\ Head(pending).kind = "config" /\ configFile' # FileOf(config')) =>
       /\ pending' = Tail(pending)
       /\ LoggedMessage(logBuffer', "Failed to save configuration")
       /\ Logged(logBuffer', "ERROR")
       /\ configFile' = configFile]_vars


\* C33: setup() always returns and loop() starts, whatever the mount of the
\* file system, the configuration file and the WiFi link do: from every
\* power-on and restart the thread reaches the first server.handleClient(),
\* and connectWiFi never makes more than MAX_ATTEMPTS attempts.
C33_BootCompletes ==
  /\ (pc = "boot") ~> (pc = "serve")
  /\ [](pc = "connect" => attempts <= MAX_ATTEMPTS)

\* loop() is reached after connectWiFi gave up, with the configuration file
\* there but not read
C33_Witness ==
  /\ pc = "serve"
  /\ ~wifi
  /\ now = MAX_ATTEMPTS * ATTEMPT_DELAY
  /\ LoggedMessage(logBuffer, "ESP32 DHT22 sensor server started")
  /\ configFile.exists
  /\ config = UnreadConfig


----------------------------------------------------------------------------
(* Properties of the manual check.  handleUpdateRequest sends its 302 as the
   statement after checkForGitHubUpdate() and returns to loop(): the reply
   is sent exactly when the thread comes back to "auto" from a run whose
   trigger is "http" *)

\* C34: every manual check (GET /update?action=check) is answered with the
\* 302 redirect to /update whatever the run it starts comes to: when the
\* thread leaves the run, it leaves it through the handler's reply.
C34_ManualCheckAnswered ==
  [][(run'.trigger = "http" /\ pc' # pc /\ pc' \notin {"download", "installed"}) =>
       pc' = "auto"]_vars

\* the same, for the runs that do not install: no update, no link, failure
ManualCheckAnsweredUnlessInstalled ==
  [][(run'.trigger = "http" /\ pc' # pc /\ pc' \notin {"download", "installed"}
        /\ run'.result # "installed") =>
       pc' = "auto"]_vars


----------------------------------------------------------------------------
(* Properties of the busy flag *)

\* C35: updateInProgress is false whenever the thread is in loop() outside
\* downloadAndInstallUpdate: at server.handleClient() and so in every HTTP
\* handler, at the scheduler's test (which therefore reduces to autoUpdate
\* and the interval) and at the sensor poll; it is set only while the single
\* activation of downloadAndInstallUpdate is in its chunk loop.
C35_BusyFlagClearOutsideTransfer ==
  /\ pc \in {"boot", "serve", "auto", "sensor", "installed"} => ~updateInProgress
  /\ updateInProgress => (pc = "download" /\ active = 1)
  /\ pc = "auto" =>
       (AutoCheckDue <=>
          (config.autoUpdate /\ now - lastUpdateCheck >= updateIntervalMs(config)))

\* a request that arrived while a transfer was running is about to be
\* handled, after that transfer failed: the flag is clear
C35_Witness ==
  /\ pc = "serve"
  /\ pending # <<>>
  /\ Head(pending).busy
  /\ ~updateInProgress
  /\ currentVersion = BootVersion


----------------------------------------------------------------------------
(* The write cursor of the log *)

\* a % b of C for b > 0: the remainder has the sign of a
CRem(a, b) == IF a >= 0 THEN a % b ELSE 0 - ((0 - a) % b)

\* C36: the write cursor stays in 0 .. MAX_LOG_ENTRIES - 1 and equals
\* logCount % MAX_LOG_ENTRIES, and a logMessage call writes the slot at the
\* cursor and no other slot.
C36_CursorFollowsCount ==
  [][/\ logIndex' \in 0..(MAX_LOG_ENTRIES - 1)
     /\ logIndex' = CRem(logCount', MAX_LOG_ENTRIES)
     /\ logCount' # logCount =>
          /\ logBuffer'[logIndex].timestamp = now'
          /\ \A i \in 0..(MAX_LOG_ENTRIES - 1) :
               i # logIndex => logBuffer'[i] = logBuffer[i]
    ]_vars

\* the same, for as long as the number of calls is below 2^(IntBits - 1)
CursorFollowsCountBeforeOverflow ==
  [][now' < 2 ^ (IntBits - 1) =>
       /\ logIndex' \in 0..(MAX_LOG_ENTRIES - 1)
       /\ logIndex' = CRem(logCount', MAX_LOG_ENTRIES)
       /\ logCount' # logCount =>
            /\ logBuffer'[logIndex].timestamp = now'
            /\ \A i \in 0..(MAX_LOG_ENTRIES - 1) :
                 i # logIndex => logBuffer'[i] = logBuffer[i]
    ]_vars

\* the cursor's range and the single slot written, at any number of calls
CursorInRangeOneSlotWritten ==
  [][/\ logIndex' \in 0..(MAX_LOG_ENTRIES - 1)
     /\ logCount' # logCount =>
          /\ logIndex' = (logIndex + 1) % MAX_LOG_ENTRIES
          /\ logBuffer'[logIndex].timestamp = now'
          /\ \A i \in 0..(MAX_LOG_ENTRIES - 1) :
               i # logIndex => logBuffer'[i] = logBuffer[i]
    ]_vars


----------------------------------------------------------------------------
(* Properties of the written counter *)

\* C37: the written counter is the number of bytes the sink accepted, not
\* the number read: so once the bytes accepted and the bytes the source has
\* yet to deliver together fall short of the declared length (for a source
\* that delivers exactly the declared length: once the sink accepted fewer
\* bytes than were read in some chunk), the transfer does not end in success,
\* Update.end is not called and currentVersion stays.
C37_UnacceptedBytesNotCounted ==
  [][/\ pc' = "download" => dl'.written = dl'.accepted
     /\ (pc = "download" /\ dl.accepted + dl.srcLeft < dl.contentLength) =>
          /\ pc' # "installed"
          /\ "end" \notin run'.events
          /\ currentVersion' = currentVersion
    ]_vars

\* the source delivered the two bytes it declared, in two chunks, and the
\* sink took one of them
C37_Witness ==
  /\ pc = "download"
  /\ dl.contentLength = 2
  /\ run.writes = 2
  /\ dl.srcLeft = 0
  /\ dl.accepted = 1
  /\ dl.written = 1


----------------------------------------------------------------------------
(* Properties of the cached pair *)

\* the /metrics body has a line of the given name
HasLine(m, name) == \E l \in m : l[1] = name

\* C38: the cached temperature and humidity are both valid or both invalid,
\* so /metrics reports esp32_sensor_status 1 exactly when the temperature and
\* the humidity line are both present and 0 exactly when neither is.
C38_CachedPairValidTogether ==
  LET m == generatePrometheusMetrics(lastTemperature, lastHumidity)
  IN  /\ (lastTemperature = NaN) <=> (lastHumidity = NaN)
      /\ (<<"esp32_sensor_status", 1>> \in m) <=>
           (HasLine(m, "esp32_temperature_celsius") /\ HasLine(m, "esp32_humidity_percent"))
      /\ (<<"esp32_sensor_status", 0>> \in m) <=>
           (~HasLine(m, "esp32_temperature_celsius") /\ ~HasLine(m, "esp32_humidity_percent"))

\* /metrics is asked for after the second poll cached a pair of readings
C38_Witness ==
  /\ pc = "serve"
  /\ pending # <<>>
  /\ Head(pending).kind = "metrics"
  /\ lastSensorRead = 2 * PollTickMs
  /\ lastTemperature = 22
  /\ lastHumidity = 21
  /\ <<"esp32_sensor_status", 1>>
       \in generatePrometheusMetrics(lastTemperature, lastHumidity)


----------------------------------------------------------------------------
(* POST /config with the form arguments of each request on record: a request
   waits in pending with the arguments it carries, and the handler takes them
   from there.  Observed, like SpecConfig, within the first hour after
   power-on *)

\* a client sends POST /config with any of the arguments, or GET /reboot
FormRequest ==
  /\ pc = "serve"
  /\ Len(pending) < MaxPending
  /\ \/ pending' = Append(pending, [kind |-> "reboot", busy |-> updateInProgress])
     \/ \E hasAuto \in BOOLEAN, interval \in ConfigIntervalArgs,
           ssid \in ConfigSsidArgs :
          pending' = Append(pending,
                            [kind |-> "config", busy |-> updateInProgress,
                             hasAuto |-> hasAuto, interval |-> interval,
                             ssid |-> ssid])
  /\ UNCHANGED <<pc, caller, now, wifi, config, configFile, currentVersion,
                 lastUpdateCheck, updateInProgress, sensorVars, logVars, dl,
                 sinkOpen, active, run>>

\* handleConfigUpdate on the arguments of the request at the head
FormPost ==
  /\ pending # <<>>
  /\ Head(pending).kind = "config"
  /\ ConfigUpdateOf({Head(pending).hasAuto}, {Head(pending).interval},
                    {Head(pending).ssid})

FormNext ==
  \/ Boot
  \/ FormRequest
  \/ ServeNone
  \/ HandleReboot
  \/ FormPost
  \/ AutoSkip
  \/ SensorSkip

SpecForm == ConfigInit /\ [][FormNext]_vars

\* the thread handles a POST /config
FormHandled ==
  /\ pc = "serve"
  /\ pc' = "auto"
  /\ pending # <<>>
  /\ Head(pending).kind = "config"

\* C39: a POST /config changes only the fields it supplies: autoUpdate, the
\* update interval and the SSID each keep their value, in memory and in the
\* record saved, when the request does not carry their argument.
C39_AbsentFieldsKept ==
  [][FormHandled =>
       LET r == Head(pending)
       IN  /\ ~r.hasAuto => config'.autoUpdate = config.autoUpdate
           /\ r.interval = NoArg => config'.updateInterval = config.updateInterval
           /\ r.ssid = NoSsid => config'.wifiSsid = config.wifiSsid
           /\ configFile' # configFile => configFile' = FileOf(config')
    ]_vars

\* C39, amended: a POST /config sets autoUpdate to whether the request
\* carries auto_update (a request without it clears the flag), sets the update
\* interval and the SSID to the values the request carries and keeps them when
\* it carries none, and the record saved, when the save succeeds, is the
\* record in memory.
C39_AbsentFieldsKeptButAutoUpdate ==
  [][FormHandled =>
       LET r == Head(pending)
       IN  /\ config'.autoUpdate = r.hasAuto
           /\ config'.updateInterval =
                (IF r.interval = NoArg THEN config.updateInterval ELSE r.interval)
           /\ config'.wifiSsid =
                (IF r.ssid = NoSsid THEN config.wifiSsid ELSE r.ssid)
           /\ configFile' # configFile => configFile' = FileOf(config')
           /\ pending' = Tail(pending)
    ]_vars

\* a request without any argument has been handled and saved: the interval
\* and the SSID set by an earlier request are kept, autoUpdate is clear
C39_Witness ==
  /\ pc = "auto"
  /\ config = [autoUpdate |-> FALSE, updateInterval |-> 1, wifiSsid |-> "home"]
  /\ configFile = FileOf(config)
  /\ LastEntry.message = "Configuration updated via web interface"


----------------------------------------------------------------------------
(* The interval tests around the wrap of millis().  The device has been up
   for almost a full period of the clock; loop() is observed once every
   ClockTickMs, and a transfer, once started, meets a source that delivers
   nothing.  now and the stamps are times since power-on: the program holds
   their residues modulo ClockPeriod and Elapsed is what it computes *)

\* time between two observed iterations of loop()
ClockTickMs == 10000

\* the device is observed until a transfer started at the wrap has met its
\* deadline
MaxClockTime == ClockPeriod + DOWNLOAD_TIMEOUT + 10 * ClockTickMs

\* the release server offers a new version
ClockReplies == {[code |-> 200, parseOk |-> TRUE, tag |-> "v1.1.0"]}

\* the image endpoint declares a length and delivers nothing; Update.begin
\* succeeds or refuses
ClockImages ==
  {[code |-> 200, len |-> MaxContentLength, free |-> MaxContentLength,
    canBegin |-> b, src |-> 0] : b \in BOOLEAN}

\* a minute before the clock wraps, in loop(), the sensor just polled; the
\* automatic check either has been off since power-on or has just run
ClockInit ==
  /\ pc = "serve"
  /\ caller = "none"
  /\ now = ClockPeriod - 2 * SENSOR_READ_INTERVAL
  /\ wifi \in BOOLEAN
  /\ pending = <<>>
  /\ \E auto \in BOOLEAN :
       /\ config = [autoUpdate |-> auto, updateInterval |-> 1, wifiSsid |-> "home"]
       /\ lastUpdateCheck = IF auto THEN now ELSE 0
  /\ configFile = FileOf(config)
  /\ currentVersion = BootVersion
  /\ updateInProgress = FALSE
  /\ lastSensorRead = now
  /\ lastTemperature = 21
  /\ lastHumidity = 21
  /\ lastLogTime = now
  /\ logBuffer = [i \in 0..(MAX_LOG_ENTRIES - 1) |-> EmptySlot]
  /\ logIndex = 0
  /\ logCount = 0
  /\ dl = NoDl
  /\ sinkOpen = FALSE
  /\ active = 0
  /\ run = NoRun

\* no request is waiting: the iteration goes on, ClockTickMs after the last
\* one observed
ClockTick ==
  /\ pc = "serve"
  /\ pending = <<>>
  /\ now + ClockTickMs <= MaxClockTime
  /\ now' = now + ClockTickMs
  /\ pc' = "auto"
  /\ UNCHANGED <<caller, wifi, pending, cfgVars, currentVersion,
                 lastUpdateCheck, updateInProgress, sensorVars, logVars, dl,
                 sinkOpen, active, run>>

\* a client sends POST /config
ClockRequest ==
  /\ pc = "serve"
  /\ Len(pending) < MaxPending
  /\ pending' = Append(pending, [kind |-> "config", busy |-> updateInProgress])
  /\ UNCHANGED <<pc, caller, now, wifi, config, configFile, currentVersion,
                 lastUpdateCheck, updateInProgress, sensorVars, logVars, dl,
                 sinkOpen, active, run>>

\* handleConfigUpdate with or without auto_update and no other argument
ClockPost == ConfigUpdateOf(BOOLEAN, {NoArg}, {NoSsid})

ClockCheck ==
  /\ pc = "auto"
  /\ AutoCheckDue
  /\ CheckOf(ClockReplies, ClockImages, "loop", <<>>, FALSE)
  /\ UNCHANGED <<now, wifi, pending, cfgVars, currentVersion, sensorVars>>

ClockPoll == SensorReadOf({21})

\* iterations of the chunk loop without data, until the clock shows
\* ClockTickMs more
ClockWait ==
  /\ InLoop
  /\ ~TimedOut(now, dl.startTime)
  /\ LinkUp(wifi)
  /\ now + ClockTickMs <= MaxClockTime
  /\ now' = now + ClockTickMs
  /\ UNCHANGED <<pc, caller, wifi, pending, cfgVars, currentVersion,
                 lastUpdateCheck, updateInProgress, sensorVars, logVars, dl,
                 sinkOpen, active, run>>

ClockNext ==
  \/ ClockTick
  \/ ClockRequest
  \/ ClockPost
  \/ ClockCheck
  \/ AutoSkip
  \/ ClockPoll
  \/ SensorSkip
  \/ ClockWait
  \/ DlTimeout

SpecClock == ClockInit /\ [][ClockNext]_vars

\* C40: the tests of the program on the wrapping clock decide as the time
\* that has really passed: at the sensor test the poll is due exactly when
\* 30 s have passed since the last poll, at the scheduler's test (autoUpdate
\* on) the check is due exactly when the configured interval has passed since
\* the last check, and in the chunk loop the deadline has struck exactly when
\* more than 5 minutes have passed since the transfer started, whether or not
\* the clock wrapped in between.
C40_TestsCorrectAcrossWrap ==
  /\ pc = "sensor" =>
       (SensorDue <=> now - lastSensorRead >= SENSOR_READ_INTERVAL)
  /\ (pc = "auto" /\ config.autoUpdate) =>
       (AutoCheckDue <=> now - lastUpdateCheck >= updateIntervalMs(config))
  /\ InLoop =>
       (TimedOut(now, dl.startTime) <=> now - dl.startTime > DOWNLOAD_TIMEOUT)

\* the same, the scheduler's test taken only while less than a period of the
\* clock has passed since the last check
TestsCorrectWithinOnePeriod ==
  /\ pc = "sensor" =>
       (SensorDue <=> now - lastSensorRead >= SENSOR_READ_INTERVAL)
  /\ (pc = "auto" /\ config.autoUpdate /\ now - lastUpdateCheck < ClockPeriod) =>
       (AutoCheckDue <=> now - lastUpdateCheck >= updateIntervalMs(config))
  /\ InLoop =>
       (TimedOut(now, dl.startTime) <=> now - dl.startTime > DOWNLOAD_TIMEOUT)

====
